---- MODULE Spec2Model ----
(***************************************************************************)
(* SmartShop: the Quota Gateway (services/geminiService.ts, the daily-     *)
(* aware revision with throttle(isSearch) and handleApiCall(call,          *)
(* isSearch, retries = 1)) and the per-item resolve/price pipeline of the  *)
(* App component.                                                          *)
(*                                                                         *)
(* Time is in milliseconds.  Strings are sequences of words so that        *)
(* String.prototype.includes and toLowerCase are computed, not assumed.    *)
(***************************************************************************)
EXTENDS Integers, Sequences, FiniteSets, TLC

\* ---------------------------------------------------------------- bounds
MaxEntries == 4      \* throttle() entries in one run (first attempts and retries)
TickMs == 1000       \* granularity of the clock

\* ------------------------------------------------------ program constants
BASE_DELAY == 4000
SEARCH_DELAY == 8000
RATE_LIMIT_BACKOFF == 15000
TRANSIENT_BACKOFF == 5000
DEFAULT_RETRIES == 1

\* callers: each may enter the lane DEFAULT_RETRIES + 1 times
NCalls == (MaxEntries + DEFAULT_RETRIES) \div (DEFAULT_RETRIES + 1)
Calls == 1..NCalls

Min(a, b) == IF a <= b THEN a ELSE b
Max(a, b) == IF a >= b THEN a ELSE b

\* Elapsed-time clocks stop counting at the largest value any comparison
\* reads, so the state space stays finite while time runs on.
SinceAdmitCap == SEARCH_DELAY

VARIABLES
    requestQueue,   \* module-level promise chain: id of the newest lane promise
    settled,        \* lane promises already resolved (0 is Promise.resolve())
    tickets,        \* one record per throttle() entry, in entry order
    admitOrder,     \* ticket ids in the order their gap timers released them
    calls,          \* one record per handleApiCall invocation chain
    sinceAdmit,     \* ms since the latest lane admission
    sinceStart      \* ms since the latest backend attempt was started

gwVars == <<requestQueue, settled, tickets, admitOrder, calls,
            sinceAdmit, sinceStart>>

\* ---------------------------------------------------------------- strings
\* toLowerCase on one word
LowerWord(w) ==
    CASE w = "Daily" -> "daily"
      [] w = "DAILY" -> "daily"
      [] w = "Per" -> "per"
      [] w = "Day" -> "day"
      [] OTHER -> w

ToLowerCase(s) == [i \in 1..Len(s) |-> LowerWord(s[i])]

\* s.includes(sub), on word sequences
Includes(s, sub) ==
    \E i \in 0..(Len(s) - Len(sub)) :
        \A j \in 1..Len(sub) : s[i + j] = sub[j]

MSG_DAILY == <<"Daily", "API", "limit", "reached.", "Try", "again", "in", "24", "hours.">>
MSG_TEMPORARY == <<"Temporary", "rate", "limit", "reached.", "Please", "wait", "60", "seconds.">>
MSG_SERVICE == <<"AI", "Service", "Error">>
MSG_KEY_MISSING == <<"API", "Key", "missing.", "Check", "environment", "variables.">>

\* ------------------------------------------------------- thrown errors
\* What a thunk can throw: status / error.code are 0 when absent.
ThrownErrors ==
    { [status |-> 429, code |-> 0, message |-> <<"Resource", "exhausted">>],
      [status |-> 429, code |-> 0, message |-> <<"Quota", "exceeded:", "Daily", "limit">>],
      [status |-> 0, code |-> 429, message |-> <<"requests", "per", "day">>],
      [status |-> 0, code |-> 0, message |-> <<"got", "429", "daily", "quota">>],
      [status |-> 0, code |-> 0, message |-> <<"Error", "429">>],
      [status |-> 0, code |-> 0, message |-> <<"Failed", "to", "fetch">>],
      [status |-> 0, code |-> 0, message |-> <<>>],
      [status |-> 503, code |-> 0, message |-> <<"Service", "Unavailable">>],
      [status |-> 401, code |-> 0, message |-> MSG_KEY_MISSING],
      [status |-> 403, code |-> 0, message |-> <<"Forbidden">>],
      [status |-> 400, code |-> 0, message |-> <<"Bad", "Request">>] }

NoError == [status |-> 0, isRateLimit |-> FALSE, isDaily |-> FALSE, message |-> <<>>]

\* new GeminiError(message, status, isDaily)
GeminiError(message, status, isDaily) ==
    [status |-> status, isRateLimit |-> (status = 429), isDaily |-> isDaily,
     message |-> message]

\* error?.status || error?.error?.code || (error?.message?.includes('429') ? 429 : 500)
StatusOf(e) ==
    IF e.status # 0 THEN e.status
    ELSE IF e.code # 0 THEN e.code
    ELSE IF Includes(e.message, <<"429">>) THEN 429 ELSE 500

\* message.toLowerCase().includes("daily") || ....includes("per day")
IsExplicitlyDaily(e) ==
    \/ Includes(ToLowerCase(e.message), <<"daily">>)
    \/ Includes(ToLowerCase(e.message), <<"per", "day">>)

\* -------------------------------------------------------------- the lane
IdleCall ==
    [pc |-> "idle", isSearch |-> FALSE, retries |-> DEFAULT_RETRIES,
     prev |-> 0, mine |-> 0, left |-> 0, waited |-> <<>>,
     attempts |-> <<>>, fails |-> <<>>, error |-> NoError]

\* Observer: the gap the gateway contract asks for before a call of a class;
\* an admission records how much of it had elapsed.
RequiredGap(isSearch) == IF isSearch THEN SEARCH_DELAY ELSE BASE_DELAY

\* (variant: one delay for every class)
ThrottleDelayFlat(isSearch) == BASE_DELAY

\* the timer throttle() arms: isSearch ? SEARCH_DELAY : BASE_DELAY
ThrottleDelay(isSearch) == IF isSearch THEN SEARCH_DELAY ELSE BASE_DELAY

\* (variant: throttle() does not wait for the captured promise)
QueueReadyNoAwait(c) == calls[c].pc = "awaitQueue"

\* `await currentQueue` has passed: the promise captured on entry is resolved
QueueReady(c) == calls[c].prev \in settled

\* (variant: the new promise is never stored in requestQueue)
ThrottleEnterNoChain(c, isSearch, retries) ==
    LET id == Len(tickets) + 1 IN
    /\ tickets' = Append(tickets, [call |-> c, isSearch |-> isSearch,
                                   prev |-> requestQueue, admitted |-> FALSE,
                                   gap |-> 0])
    /\ calls' = [calls EXCEPT ![c].pc = "awaitQueue", ![c].isSearch = isSearch,
                              ![c].retries = retries, ![c].prev = requestQueue,
                              ![c].mine = id]
    /\ UNCHANGED <<requestQueue, settled, admitOrder, sinceAdmit, sinceStart>>

\* The synchronous head of throttle(): capture requestQueue, replace it by a
\* fresh promise, then suspend on the captured one.
ThrottleEnter(c, isSearch, retries) ==
    LET id == Len(tickets) + 1 IN
    /\ tickets' = Append(tickets, [call |-> c, isSearch |-> isSearch,
                                   prev |-> requestQueue, admitted |-> FALSE,
                                   gap |-> 0])
    /\ requestQueue' = id
    /\ calls' = [calls EXCEPT ![c].pc = "awaitQueue", ![c].isSearch = isSearch,
                              ![c].retries = retries, ![c].prev = requestQueue,
                              ![c].mine = id]
    /\ UNCHANGED <<settled, admitOrder, sinceAdmit, sinceStart>>

\* handleApiCall(call, isSearch) entered by a caller; callers are numbered in
\* the order they enter.
\* lane entries the call may still make
EntriesAhead(cr) ==
    IF cr.pc = "backoff" \/ (cr.pc \in {"awaitQueue", "gap", "inflight"} /\ cr.retries > 0)
    THEN 1 ELSE 0

RECURSIVE SumAhead(_)
SumAhead(n) == IF n = 0 THEN 0 ELSE EntriesAhead(calls[n]) + SumAhead(n - 1)

Issue(c, isSearch) ==
    /\ calls[c].pc = "idle"
    /\ \A d \in Calls : d < c => calls[d].pc # "idle"
    /\ Len(tickets) + SumAhead(NCalls) + DEFAULT_RETRIES + 1 <= MaxEntries
    /\ ThrottleEnter(c, isSearch, DEFAULT_RETRIES)

\* continuation of `await currentQueue`: arm the gap timer
StartGap(c) ==
    /\ calls[c].pc = "awaitQueue"
    /\ QueueReady(c)
    /\ calls' = [calls EXCEPT ![c].pc = "gap",
                              ![c].left = ThrottleDelay(calls[c].isSearch)]
    /\ UNCHANGED <<requestQueue, settled, tickets, admitOrder,
                   sinceAdmit, sinceStart>>

\* `return await call()`: the thunk starts a backend attempt
StartAttempt(cs, c) ==
    [cs EXCEPT ![c].pc = "inflight",
               ![c].attempts = Append(@, [ticket |-> cs[c].mine,
                                          gap |-> Min(sinceStart, BASE_DELAY)])]

\* (variant: the lane is not released when the gap timer fires)
AdmitHoldingLane(c) ==
    LET t == calls[c].mine IN
    /\ calls[c].pc = "gap"
    /\ calls[c].left = 0
    /\ tickets' = [tickets EXCEPT
                     ![t].admitted = TRUE,
                     ![t].gap = Min(sinceAdmit, RequiredGap(tickets[t].isSearch))]
    /\ admitOrder' = Append(admitOrder, t)
    /\ sinceAdmit' = 0
    /\ sinceStart' = 0
    /\ calls' = StartAttempt(calls, c)
    /\ UNCHANGED <<requestQueue, settled>>

\* the gap timer fires: resolver!() releases the lane, throttle() returns and
\* handleApiCall runs `await call()`
Admit(c) ==
    LET t == calls[c].mine IN
    /\ calls[c].pc = "gap"
    /\ calls[c].left = 0
    /\ settled' = settled \cup {t}
    /\ tickets' = [tickets EXCEPT
                     ![t].admitted = TRUE,
                     ![t].gap = Min(sinceAdmit, RequiredGap(tickets[t].isSearch))]
    /\ admitOrder' = Append(admitOrder, t)
    /\ sinceAdmit' = 0
    /\ sinceStart' = 0
    /\ calls' = StartAttempt(calls, c)
    /\ UNCHANGED requestQueue

\* (variants of the catch block: again429 / againOther say whether the 429
\* branch and the other branch retry)
CatchWith(cr, e, again429, againOther) ==
    LET status == StatusOf(e)
        daily == IsExplicitlyDaily(e)
        logged == [cr EXCEPT !.fails = Append(@, e)]
    IN
    IF status = 429 THEN
        IF again429
        THEN [logged EXCEPT !.pc = "backoff", !.left = RATE_LIMIT_BACKOFF,
                            !.waited = Append(@, RATE_LIMIT_BACKOFF)]
        ELSE [logged EXCEPT !.pc = "rejected",
                            !.error = GeminiError(
                                IF daily THEN MSG_DAILY ELSE MSG_TEMPORARY,
                                429, daily)]
    ELSE IF againOther
        THEN [logged EXCEPT !.pc = "backoff", !.left = TRANSIENT_BACKOFF,
                            !.waited = Append(@, TRANSIENT_BACKOFF)]
        ELSE [logged EXCEPT !.pc = "rejected",
                            !.error = GeminiError(
                                IF e.message # <<>> THEN e.message ELSE MSG_SERVICE,
                                status, FALSE)]

\* (variant: a daily 429 is retried like any other 429)
HandleFailureRetryDaily(cr, e) ==
    CatchWith(cr, e, cr.retries > 0, StatusOf(e) >= 500 /\ cr.retries > 0)

\* (variant: a 429 is surfaced at once, as in the revision without a lane)
HandleFailureNo429Retry(cr, e) ==
    CatchWith(cr, e, FALSE, StatusOf(e) >= 500 /\ cr.retries > 0)

\* (variant: a 5xx is surfaced at once)
HandleFailureNo5xxRetry(cr, e) ==
    CatchWith(cr, e, cr.retries > 0 /\ ~IsExplicitlyDaily(e), FALSE)

\* (variant: every failure other than a 429 is retried)
HandleFailureRetryAny(cr, e) ==
    CatchWith(cr, e, cr.retries > 0 /\ ~IsExplicitlyDaily(e), cr.retries > 0)

\* (variant: the retry branches do not look at the retries left)
HandleFailureRetryForever(cr, e) ==
    CatchWith(cr, e, ~IsExplicitlyDaily(e), StatusOf(e) >= 500)

\* the catch block of handleApiCall, for the error e thrown by call(): the
\* call's next record
HandleFailure(cr, e) ==
    LET status == StatusOf(e)
        daily == IsExplicitlyDaily(e)
        logged == [cr EXCEPT !.fails = Append(@, e)]
    IN
    IF status = 429 THEN
        IF cr.retries > 0 /\ ~daily
        THEN [logged EXCEPT !.pc = "backoff", !.left = RATE_LIMIT_BACKOFF,
                            !.waited = Append(@, RATE_LIMIT_BACKOFF)]
        ELSE [logged EXCEPT !.pc = "rejected",
                            !.error = GeminiError(
                                IF daily THEN MSG_DAILY ELSE MSG_TEMPORARY,
                                429, daily)]
    ELSE IF status >= 500 /\ cr.retries > 0
        THEN [logged EXCEPT !.pc = "backoff", !.left = TRANSIENT_BACKOFF,
                            !.waited = Append(@, TRANSIENT_BACKOFF)]
        ELSE [logged EXCEPT !.pc = "rejected",
                            !.error = GeminiError(
                                IF e.message # <<>> THEN e.message ELSE MSG_SERVICE,
                                status, FALSE)]

\* call() returns a value
Succeed(c) ==
    /\ calls[c].pc = "inflight"
    /\ calls' = [calls EXCEPT ![c].pc = "resolved"]
    /\ UNCHANGED <<requestQueue, settled, tickets, admitOrder,
                   sinceAdmit, sinceStart>>

\* call() throws e
Fail(c, e) ==
    /\ calls[c].pc = "inflight"
    /\ calls' = [calls EXCEPT ![c] = HandleFailure(calls[c], e)]
    /\ UNCHANGED <<requestQueue, settled, tickets, admitOrder,
                   sinceAdmit, sinceStart>>

\* (variant: only the first attempt passes through throttle(), as in the
\* revision that guards it with `retries === 3`)
RetryNoThrottle(c) ==
    /\ calls[c].pc = "backoff"
    /\ calls[c].left = 0
    /\ calls' = StartAttempt([calls EXCEPT ![c].retries = @ - 1], c)
    /\ sinceStart' = 0
    /\ UNCHANGED <<requestQueue, settled, tickets, admitOrder, sinceAdmit>>

\* the backoff timer fires: return handleApiCall(call, isSearch, retries - 1),
\* which starts with `await throttle(isSearch)`
Retry(c) ==
    /\ calls[c].pc = "backoff"
    /\ calls[c].left = 0
    /\ ThrottleEnter(c, calls[c].isSearch, calls[c].retries - 1)

\* setTimeout countdown of one call
Elapse(cr) ==
    IF cr.pc \in {"gap", "backoff"}
    THEN [cr EXCEPT !.left = Max(0, cr.left - TickMs)]
    ELSE cr

\* Time passes.  Promise continuations (microtasks) run before any timer, a
\* timer may fire late, a backend round trip may take any time.
Tick ==
    /\ \A c \in Calls : ~(calls[c].pc = "awaitQueue" /\ QueueReady(c))
    /\ calls' = [c \in Calls |-> Elapse(calls[c])]
    /\ sinceAdmit' = Min(SinceAdmitCap, sinceAdmit + TickMs)
    /\ sinceStart' = Min(BASE_DELAY, sinceStart + TickMs)
    /\ UNCHANGED <<requestQueue, settled, tickets, admitOrder>>

GwInit ==
    /\ requestQueue = 0
    /\ settled = {0}
    /\ tickets = <<>>
    /\ admitOrder = <<>>
    /\ calls = [c \in Calls |-> IdleCall]
    /\ sinceAdmit = SinceAdmitCap
    /\ sinceStart = BASE_DELAY

\* One error of each retry class, for the runs with several callers.
LaneErrors ==
    { e \in ThrownErrors : e.message \in { <<"Resource", "exhausted">>,
                                           <<"Service", "Unavailable">>,
                                           <<"Forbidden">> } }

\* ================================================== the item pipeline
\* (App component: addItem, processItem, continueWithItem,
\*  handleProcessingError, deleteItem, deleteAll; ShoppingItemCard buttons)

MaxStarts == 4       \* pipeline starts (add, retry, option pick) in one run

VARIABLES
    items,          \* the items state: a list of ShoppingItem records
    nextId,         \* ids handed out so far
    starts,         \* pipeline starts so far
    tasks,          \* suspended processItem / continueWithItem invocations
    location,       \* the location state (device or geocoded), "none" when null
    manualLocation, \* settings.manualLocation, "none" when undefined
    userLocation,   \* the latest place handleUpdateLocation set, "none" before
    geo,            \* navigator.geolocation request: "pending" | "done"
    isDeletingAll,  \* the Clear All confirmation is armed
    edges,          \* the status changes made by the latest step's items updaters
    lastRefine      \* the refineItem answer the latest step handled, if any

itVars == <<items, nextId, starts, tasks, location, manualLocation, userLocation, geo,
            isDeletingAll, edges, lastRefine>>

\* an undefined string, and optional values of the other types
Undefined == "<undefined>"
Some(v) == [some |-> TRUE, val |-> v]
NoSeq == [some |-> FALSE, val |-> <<>>]
NoNumber == [some |-> FALSE, val |-> 0]
MSG_REQUEST_FAILED == <<"API", "Request", "failed.", "Try", "again.">>

\* how the latest step settled `await refineItem(name)`, if it did: resolved
\* (some) with a payload, or rejected (failed) with an error of that message
NoRefine == [some |-> FALSE, id |-> 0, isNull |-> FALSE, isVague |-> FALSE,
             failed |-> FALSE, message |-> <<>>]

\* what refineItem can resolve to: JSON.parse(response.text || "{}")
\* (isNull: the text was "null"; a missing isVague is falsy like false)
RefineValues ==
    { [isNull |-> FALSE, name |-> "whole milk", isVague |-> FALSE, options |-> NoSeq],
      [isNull |-> FALSE, name |-> "bread", isVague |-> TRUE,
       options |-> Some(<<"white bread", "wholemeal bread">>)],
      [isNull |-> FALSE, name |-> "bread", isVague |-> TRUE, options |-> Some(<<>>)],
      [isNull |-> FALSE, name |-> "bread", isVague |-> TRUE, options |-> NoSeq],
      [isNull |-> FALSE, name |-> Undefined, isVague |-> FALSE, options |-> NoSeq],
      [isNull |-> TRUE, name |-> Undefined, isVague |-> FALSE, options |-> NoSeq] }

\* what findTopPriceOptions can resolve to
\* (prices in thousandths of the currency unit; isNull: the text parsed to null)
PriceValues ==
    { [isNull |-> FALSE, list |-> <<>>],
      [isNull |-> FALSE, list |-> << [shop |-> "ShopA", price |-> 2000],
                                     [shop |-> "ShopB", price |-> 2500] >>],
      [isNull |-> FALSE, list |-> << [shop |-> "ShopB", price |-> 2500],
                                     [shop |-> "ShopA", price |-> 2000] >>],
      [isNull |-> TRUE, list |-> <<>>] }

\* ascending by price
IsSortedByPrice(list) ==
    \A a, b \in DOMAIN list : a < b => list[a].price <= list[b].price

\* what a gateway call can reject with
Rejections ==
    { GeminiError(MSG_DAILY, 429, TRUE),
      GeminiError(MSG_SERVICE, 500, FALSE) }

\* a value that is not a GeminiError (a TypeError thrown in the component)
TypeError == [status |-> 0, isRateLimit |-> FALSE, isDaily |-> FALSE,
              message |-> <<"TypeError">>]

\* JavaScript truthiness of an optional array: every array is truthy
Truthy(opt) == opt.some

\* what the user types: the list to add, in order, and a free-text pick
ItemsToAdd == <<"milk", "bread">>
MaxItems == Len(ItemsToAdd)
PickTexts == {"white bread"}

HasItem(its, id) == \E k \in DOMAIN its : its[k].id = id
ItemOf(its, id) == its[CHOOSE k \in DOMAIN its : its[k].id = id]

\* prev.map(i => i.id === id ? F(i) : i)
MapItem(its, id, F(_)) ==
    [k \in DOMAIN its |-> IF its[k].id = id THEN F(its[k]) ELSE its[k]]

\* the status changes such an updater makes when it sets `to`
Changes(its, id, to) ==
    { <<its[k].status, to>> : k \in {k \in DOMAIN its : its[k].id = id} }

\* prev.filter(i => Keep(i))
FilterItems(its, Keep(_)) == SelectSeq(its, Keep)

\* settings.manualLocation || location
CurrentLoc == IF manualLocation # "none" THEN manualLocation ELSE location

\* error instanceof GeminiError ? error.message : "API Request failed. Try again."
ErrorMessage(err) == IF err = TypeError THEN MSG_REQUEST_FAILED ELSE err.message

\* (variant: the updater does not test the id)
HandleProcessingErrorAll(its, id, err) ==
    LET Upd(i) == [i EXCEPT !.status = "error", !.error = Some(ErrorMessage(err))]
    IN [items |-> [k \in DOMAIN its |-> Upd(its[k])],
        edges |-> {<<its[k].status, "error">> : k \in DOMAIN its}]

\* (variant: the generic message whatever the error)
HandleProcessingErrorGeneric(its, id, err) ==
    LET Upd(i) == [i EXCEPT !.status = "error", !.error = Some(MSG_REQUEST_FAILED)]
    IN [items |-> MapItem(its, id, Upd), edges |-> Changes(its, id, "error")]

\* handleProcessingError(id, error): the items updater and its status changes
HandleProcessingError(its, id, err) ==
    LET Upd(i) == [i EXCEPT !.status = "error", !.error = Some(ErrorMessage(err))]
    IN [items |-> MapItem(its, id, Upd), edges |-> Changes(its, id, "error")]

\* (variant: Retry is offered whatever the status)
CanRetryAlways(i) == TRUE

\* the Retry button is rendered for an item in error
CanRetry(i) == i.status = "error"

\* the options panel is rendered for a vague item
CanPick(i) == i.status = "vague"

\* processItem(id, name) up to `await refineItem(name)`; loc is the location
\* the closure of that render holds
ProcessItem(its, id, name, loc) ==
    LET Upd(i) == [i EXCEPT !.status = "correcting", !.error = NoSeq]
    IN [items |-> MapItem(its, id, Upd),
        edges |-> Changes(its, id, "correcting"),
        tasks |-> {[id |-> id, stage |-> "refine", name |-> name, loc |-> loc]}]

\* continueWithItem(id, name, emoji) up to `await findTopPriceOptions`, or to
\* its end when there is no location
ContinueWithItem(its, id, name, loc) ==
    LET Upd(i) == [i EXCEPT !.name = name, !.status = "searching", !.error = NoSeq]
        Ready(i) == [i EXCEPT !.status = "ready"]
        its1 == MapItem(its, id, Upd)
    IN IF loc # "none"
       THEN [items |-> its1,
             edges |-> Changes(its, id, "searching"),
             tasks |-> {[id |-> id, stage |-> "price", name |-> name, loc |-> loc]}]
       ELSE [items |-> MapItem(its1, id, Ready),
             edges |-> Changes(its, id, "searching") \cup Changes(its1, id, "ready"),
             tasks |-> {}]

\* (variant: the id of a new item is its position in the list)
AddItemReusingId(text) ==
    LET id == Len(items) + 1
        newItem == [id |-> id, originalName |-> text, name |-> text,
                    status |-> "pending", options |-> NoSeq,
                    topOptions |-> NoSeq, cheapestShop |-> Undefined,
                    price |-> NoNumber, error |-> NoSeq]
        its1 == Append(items, newItem)
        r == ProcessItem(its1, id, text, CurrentLoc)
    IN
    /\ nextId < MaxItems
    /\ text = ItemsToAdd[nextId + 1]
    /\ starts < MaxStarts
    /\ nextId' = nextId + 1
    /\ starts' = starts + 1
    /\ items' = r.items
    /\ edges' = r.edges
    /\ lastRefine' = NoRefine
    /\ tasks' = tasks \cup r.tasks
    /\ UNCHANGED <<location, manualLocation, userLocation, geo, isDeletingAll>>

\* addItem: a new pending item, then processItem(newItem.id, originalName)
AddItem(text) ==
    LET id == nextId + 1
        newItem == [id |-> id, originalName |-> text, name |-> text,
                    status |-> "pending", options |-> NoSeq,
                    topOptions |-> NoSeq, cheapestShop |-> Undefined,
                    price |-> NoNumber, error |-> NoSeq]
        its1 == Append(items, newItem)
        r == ProcessItem(its1, id, text, CurrentLoc)
    IN
    /\ nextId < MaxItems
    /\ text = ItemsToAdd[nextId + 1]
    /\ starts < MaxStarts
    /\ nextId' = id
    /\ starts' = starts + 1
    /\ items' = r.items
    /\ edges' = r.edges
    /\ lastRefine' = NoRefine
    /\ tasks' = tasks \cup r.tasks
    /\ UNCHANGED <<location, manualLocation, userLocation, geo, isDeletingAll>>

\* onRetry(id): processItem(id, item.originalName)
RetryItem(id) ==
    /\ HasItem(items, id)
    /\ CanRetry(ItemOf(items, id))
    /\ starts < MaxStarts
    /\ starts' = starts + 1
    /\ LET r == ProcessItem(items, id, ItemOf(items, id).originalName, CurrentLoc) IN
        /\ items' = r.items
        /\ edges' = r.edges
        /\ lastRefine' = NoRefine
        /\ tasks' = tasks \cup r.tasks
    /\ UNCHANGED <<nextId, location, manualLocation, userLocation, geo, isDeletingAll>>

\* onOptionPick(id, name): an option button or the free-text form
PickOption(id, name) ==
    /\ HasItem(items, id)
    /\ CanPick(ItemOf(items, id))
    /\ starts < MaxStarts
    /\ starts' = starts + 1
    /\ \/ name \in PickTexts
       \/ \E k \in DOMAIN ItemOf(items, id).options.val :
              name = ItemOf(items, id).options.val[k]
    /\ LET r == ContinueWithItem(items, id, name, CurrentLoc) IN
        /\ items' = r.items
        /\ edges' = r.edges
        /\ lastRefine' = NoRefine
        /\ tasks' = tasks \cup r.tasks
    /\ UNCHANGED <<nextId, location, manualLocation, userLocation, geo, isDeletingAll>>

\* `await refineItem(name)` resolves with v
RefineResolved(t, v) ==
    /\ t \in tasks
    /\ t.stage = "refine"
    /\ LET Vague(i) == [i EXCEPT !.name = v.name, !.status = "vague",
                                 !.options = v.options]
           r == IF v.isNull
                THEN HandleProcessingError(items, t.id, TypeError) @@ [tasks |-> {}]
                ELSE IF v.isVague /\ Truthy(v.options)
                THEN [items |-> MapItem(items, t.id, Vague),
                      edges |-> Changes(items, t.id, "vague"),
                      tasks |-> {}]
                ELSE ContinueWithItem(items, t.id, v.name, t.loc)
       IN
        /\ items' = r.items
        /\ edges' = r.edges
        /\ lastRefine' = [NoRefine EXCEPT !.some = TRUE, !.id = t.id,
                                           !.isNull = v.isNull,
                                           !.isVague = v.isVague]
        /\ tasks' = (tasks \ {t}) \cup r.tasks
    /\ UNCHANGED <<nextId, starts, location, manualLocation, userLocation, geo, isDeletingAll>>

\* `await findTopPriceOptions(name, currentLoc)` resolves with v
PriceResolved(t, v) ==
    /\ t \in tasks
    /\ t.stage = "price"
    /\ LET cheapest == IF v.list # <<>> THEN v.list[1]
                       ELSE [shop |-> "Unknown", price |-> 0]
           Ready(i) == [i EXCEPT !.topOptions = Some(v.list),
                                 !.cheapestShop = cheapest.shop,
                                 !.price = Some(cheapest.price), !.status = "ready"]
           r == IF v.isNull
                THEN HandleProcessingError(items, t.id, TypeError)
                ELSE [items |-> MapItem(items, t.id, Ready),
                      edges |-> Changes(items, t.id, "ready")]
       IN
        /\ items' = r.items
        /\ edges' = r.edges
        /\ lastRefine' = NoRefine
        /\ tasks' = tasks \ {t}
    /\ UNCHANGED <<nextId, starts, location, manualLocation, userLocation, geo, isDeletingAll>>

\* either await rejects with err: the catch block calls handleProcessingError
TaskRejected(t, err) ==
    /\ t \in tasks
    /\ LET r == HandleProcessingError(items, t.id, err) IN
        /\ items' = r.items
        /\ edges' = r.edges
        /\ lastRefine' = IF t.stage = "refine"
                         THEN [NoRefine EXCEPT !.failed = TRUE, !.id = t.id,
                                               !.message = err.message]
                         ELSE NoRefine
    /\ tasks' = tasks \ {t}
    /\ UNCHANGED <<nextId, starts, location, manualLocation, userLocation, geo, isDeletingAll>>

\* deleteItem(id)
DeleteItem(id) ==
    /\ HasItem(items, id)
    /\ LET Keep(i) == i.id # id IN items' = FilterItems(items, Keep)
    /\ edges' = {}
    /\ lastRefine' = NoRefine
    /\ UNCHANGED <<nextId, starts, tasks, location, manualLocation, userLocation, geo, isDeletingAll>>

\* deleteSelected, confirmed, with the items of these ids selected
DeleteSelected(selected) ==
    /\ selected # {}
    /\ \A id \in selected : HasItem(items, id)
    /\ LET Keep(i) == i.id \notin selected IN items' = FilterItems(items, Keep)
    /\ edges' = {}
    /\ lastRefine' = NoRefine
    /\ UNCHANGED <<nextId, starts, tasks, location, manualLocation, userLocation, geo, isDeletingAll>>

\* deleteAll: the first click arms the confirmation, the second clears
DeleteAll ==
    /\ items # <<>>
    /\ IF ~isDeletingAll
       THEN /\ isDeletingAll' = TRUE
            /\ UNCHANGED items
       ELSE /\ isDeletingAll' = FALSE
            /\ items' = <<>>
    /\ edges' = {}
    /\ lastRefine' = NoRefine
    /\ UNCHANGED <<nextId, starts, tasks, location, manualLocation, userLocation, geo>>

\* setTimeout(() => setIsDeletingAll(false), 3000)
DeleteAllExpires ==
    /\ isDeletingAll
    /\ isDeletingAll' = FALSE
    /\ edges' = {}
    /\ lastRefine' = NoRefine
    /\ UNCHANGED <<items, nextId, starts, tasks, location, manualLocation, userLocation, geo>>

\* fetchCurrentLocation on mount: the position callback, or the error callback
GeoResult(ok) ==
    /\ geo = "pending"
    /\ geo' = "done"
    /\ IF ok
       THEN location' = "gps" /\ manualLocation' = "gps"
       ELSE UNCHANGED <<location, manualLocation>>
    /\ edges' = {}
    /\ lastRefine' = NoRefine
    /\ UNCHANGED <<items, nextId, starts, tasks, userLocation, isDeletingAll>>

ItInit ==
    /\ items = <<>>
    /\ nextId = 0
    /\ starts = 0
    /\ tasks = {}
    /\ location = "none"
    /\ manualLocation = "none"
    /\ userLocation = "none"
    /\ geo = "pending"
    /\ isDeletingAll = FALSE
    /\ edges = {}
    /\ lastRefine = NoRefine

Ids == 1..MaxItems

ItNext ==
    \/ \E text \in {ItemsToAdd[k] : k \in DOMAIN ItemsToAdd} : AddItem(text)
    \/ \E id \in Ids : RetryItem(id)
    \/ \E id \in Ids, name \in PickTexts \cup {"wholemeal bread"} : PickOption(id, name)
    \/ \E t \in tasks, v \in RefineValues : RefineResolved(t, v)
    \/ \E t \in tasks, v \in PriceValues : PriceResolved(t, v)
    \/ \E t \in tasks, err \in Rejections : TaskRejected(t, err)
    \/ \E id \in Ids : DeleteItem(id)
    \/ \E selected \in SUBSET Ids : DeleteSelected(selected)
    \/ DeleteAll
    \/ DeleteAllExpires
    \/ \E ok \in BOOLEAN : GeoResult(ok)

\* ===================================================== strategy summary
\* (App: fingerprint and result cache; SummaryModal: effect and
\* calculateSummary).  Prices are in thousandths of the currency unit.
MaxRuns == 2         \* calculateSummary invocations in one run of the model
MaxChanges == 1      \* changes of the settings and of the entered location

MAX_CANDIDATES == 5
TOP_STRATEGIES == 3
SAVINGS_THRESHOLD == 10     \* 0.01
FIRST_WEIGHT == 3           \* weight = 3 - idx
Infinity == 1000000000
DEFAULT_MAX_DISTANCE == 10

VARIABLES
    maxDistance,                \* settings.maxDistance
    distanceUnit,               \* settings.distanceUnit
    showSummary,                \* the showSummary state
    lastCalculationFingerprint, \* fingerprint stored with the cached result
    cachedRankedShops,          \* the cached ranking, none when null
    effectPending,              \* a render changed the effect's dependencies
    rankedShops,                \* the rankedShops state of the mounted modal
    rankedFp,                   \* the fingerprint rankedShops was computed under
    runs,                       \* calculateSummary invocations, in start order
    runsStarted,                \* how many were started
    changes,                    \* settings and location changes so far
    loading,                    \* the loading state of the modal
    anim,                       \* the effect's progress animation is running
    hideTimers,                 \* armed setTimeout(() => setLoading(false))
    lastEffect,                 \* what the effect did, when the latest step ran it
    lastDone                    \* the latest calculateSummary that finished

smVars == <<maxDistance, distanceUnit, showSummary, lastCalculationFingerprint,
            cachedRankedShops, effectPending, rankedShops, rankedFp,
            runs, runsStarted, changes, loading, anim, hideTimers,
            lastEffect, lastDone>>

\* the modal's own state: useState(true) for loading, no timer armed
ldVars == <<loading, anim, hideTimers>>

\* ---- locations: (lat, lng) in 1e-5 degrees
\* "gpsB" is a place two steps of 1e-5 from "gps": the same 4-decimal key
Places == {"gps", "gpsB", "town"}
Lat(loc) == CASE loc = "gps" -> 5150732 [] loc = "gpsB" -> 5150734
              [] loc = "town" -> 5345010 [] OTHER -> 0
Lng(loc) == CASE loc = "gps" -> 12780 [] loc = "gpsB" -> 12780
              [] loc = "town" -> 223610 [] OTHER -> 0

\* x.toFixed(4) of a coordinate given in 1e-5: the nearest 1e-4
ToFixed4(x) == (x + 5) \div 10

\* location ? `${lat.toFixed(4)},${lng.toFixed(4)}` : 'none'
LocKey(loc) == IF loc = "none" THEN <<>> ELSE <<ToFixed4(Lat(loc)), ToFixed4(Lng(loc))>>

\* ---- the fingerprint
RECURSIVE InsertKey(_, _)
InsertKey(sorted, key) ==
    IF sorted = <<>> THEN <<key>>
    ELSE IF key[1] < sorted[1][1] THEN <<key>> \o sorted
    ELSE <<sorted[1]>> \o InsertKey(Tail(sorted), key)

\* items.filter(ready).map(i => i.id + i.name).sort(): ids are distinct and
\* lead the key, so the order is the order of the ids
RECURSIVE ReadyKeys(_)
ReadyKeys(its) ==
    IF its = <<>> THEN <<>>
    ELSE LET rest == ReadyKeys(Tail(its)) IN
         IF its[1].status = "ready"
         THEN InsertKey(rest, <<its[1].id, its[1].name>>)
         ELSE rest

\* currentFingerprint
Fingerprint(its, loc, manual, maxDist, unit) ==
    [empty |-> FALSE, ready |-> ReadyKeys(its), locKey |-> LocKey(loc),
     manualLocKey |-> LocKey(manual), maxDistance |-> maxDist,
     distanceUnit |-> unit]

\* useState<string>('')
EmptyFingerprint ==
    [empty |-> TRUE, ready |-> <<>>, locKey |-> <<>>, manualLocKey |-> <<>>,
     maxDistance |-> 0, distanceUnit |-> ""]

CurrentFingerprint ==
    Fingerprint(items, location, manualLocation, maxDistance, distanceUnit)

\* cachedData={lastCalculationFingerprint === currentFingerprint
\*             ? cachedRankedShops : null}
CachedDataAlways == cachedRankedShops

CachedDataNever == NoSeq

CachedData ==
    IF lastCalculationFingerprint = CurrentFingerprint
    THEN cachedRankedShops ELSE NoSeq

\* {showSummary && (location || settings.manualLocation) && <SummaryModal/>}
Mounted == showSummary /\ CurrentLoc # "none"

\* ---- backend texts, as words
\* parseFloat of the text a word matches /(\d+(\.\d+)?)/ with, none when it
\* matches nothing (distances in units, prices in thousandths)
NumeralOf(word) ==
    CASE word = "3" -> Some(3) [] word = "10" -> Some(10)
      [] word = "1.50" -> Some(1500) [] word = "0" -> Some(0)
      [] OTHER -> NoNumber

\* getNumericDistance: the first number found in the string, else Infinity
RECURSIVE GetNumericDistance(_)
GetNumericDistance(distStr) ==
    IF distStr = <<>> THEN Infinity
    ELSE IF NumeralOf(distStr[1]).some THEN NumeralOf(distStr[1]).val
    ELSE GetNumericDistance(Tail(distStr))

\* ---- candidate shops
\* shopWeights[shop] = (shopWeights[shop] || 0) + weight; a new key goes last
AddWeight(sw, shop, weight) ==
    IF \E k \in DOMAIN sw : sw[k].name = shop
    THEN [k \in DOMAIN sw |->
            IF sw[k].name = shop THEN [sw[k] EXCEPT !.weight = @ + weight]
            ELSE sw[k]]
    ELSE Append(sw, [name |-> shop, weight |-> weight])

\* item.topOptions?.forEach((opt, idx) => ... weight = 3 - idx ...), from idx
RECURSIVE WeighOptions(_, _, _)
WeighOptions(sw, list, idx) ==
    IF idx >= Len(list) THEN sw
    ELSE WeighOptions(AddWeight(sw, list[idx + 1].shop, FIRST_WEIGHT - idx),
                      list, idx + 1)

\* readyItems.forEach(item => ...), in list order
RECURSIVE ShopWeights(_, _)
ShopWeights(sw, readyItems) ==
    IF readyItems = <<>> THEN sw
    ELSE ShopWeights(
            IF readyItems[1].topOptions.some
            THEN WeighOptions(sw, readyItems[1].topOptions.val, 0) ELSE sw,
            Tail(readyItems))

\* Array.prototype.sort is stable: an entry goes behind its equals
RECURSIVE InsertByWeight(_, _)
InsertByWeight(sorted, e) ==
    IF sorted = <<>> THEN <<e>>
    ELSE IF e.weight > sorted[1].weight THEN <<e>> \o sorted
    ELSE <<sorted[1]>> \o InsertByWeight(Tail(sorted), e)

RECURSIVE SortByWeight(_, _)
SortByWeight(sorted, rest) ==
    IF rest = <<>> THEN sorted
    ELSE SortByWeight(InsertByWeight(sorted, rest[1]), Tail(rest))

\* seq.slice(0, n)
Slice(seq, n) == SubSeq(seq, 1, Min(n, Len(seq)))

\* (variant: every quoted shop is a candidate)
SortedCandidateShopsAll(readyItems) ==
    SortByWeight(<<>>, ShopWeights(<<>>, readyItems))

\* Object.entries(shopWeights).sort((a, b) => b[1] - a[1]).slice(0, 5)
SortedCandidateShops(readyItems) ==
    Slice(SortByWeight(<<>>, ShopWeights(<<>>, readyItems)), MAX_CANDIDATES)

\* ---- ranking
\* the comparator of calculatedRanked.sort: negative when a goes first
RankedBeforeByPrice(a, b) == a.totalPrice < b.totalPrice

RankedBefore(a, b) ==
    \/ a.isWithinPreference /\ ~b.isWithinPreference
    \/ /\ a.isWithinPreference = b.isWithinPreference
       /\ a.totalPrice < b.totalPrice

RECURSIVE InsertRanked(_, _)
InsertRanked(sorted, e) ==
    IF sorted = <<>> THEN <<e>>
    ELSE IF RankedBefore(e, sorted[1]) THEN <<e>> \o sorted
    ELSE <<sorted[1]>> \o InsertRanked(Tail(sorted), e)

RECURSIVE SortRanked(_, _)
SortRanked(sorted, rest) ==
    IF rest = <<>> THEN sorted
    ELSE SortRanked(InsertRanked(sorted, rest[1]), Tail(rest))

\* the forEach that finds closestIdx / cheapestIdx (0 for -1): the first
\* index whose value is strictly below every earlier one and below Infinity
RECURSIVE MinIndexLoose(_, _, _, _)
MinIndexLoose(vals, idx, best, bestIdx) ==
    IF idx > Len(vals) THEN bestIdx
    ELSE IF vals[idx] <= best THEN MinIndexLoose(vals, idx + 1, vals[idx], idx)
    ELSE MinIndexLoose(vals, idx + 1, best, bestIdx)

RECURSIVE MinIndex(_, _, _, _)
MinIndex(vals, idx, best, bestIdx) ==
    IF idx > Len(vals) THEN bestIdx
    ELSE IF vals[idx] < best THEN MinIndex(vals, idx + 1, vals[idx], idx)
    ELSE MinIndex(vals, idx + 1, best, bestIdx)

\* if (calculatedRanked.length > 0) { ... isClosest / isCheapest = true }
Flagged(ranked) ==
    LET closestIdx ==
            MinIndex([k \in DOMAIN ranked |-> ranked[k].numericDistance], 1, Infinity, 0)
        cheapestIdx ==
            MinIndex([k \in DOMAIN ranked |-> ranked[k].totalPrice], 1, Infinity, 0)
    IN [k \in DOMAIN ranked |->
          [ranked[k] EXCEPT !.isClosest = (k = closestIdx),
                            !.isCheapest = (k = cheapestIdx)]]

\* sort, slice(0, 3), flag
Finalize(calculatedRanked) ==
    Flagged(Slice(SortRanked(<<>>, calculatedRanked), TOP_STRATEGIES))

\* getPriceAtShop: text = response.text || "0", the first number in it, else 0
RECURSIVE FirstNumber(_)
FirstNumber(text) ==
    IF text = <<>> THEN 0
    ELSE IF NumeralOf(text[1]).some THEN NumeralOf(text[1]).val
    ELSE FirstNumber(Tail(text))

GetPriceAtShop(text) == FirstNumber(IF text = <<>> THEN <<"0">> ELSE text)

\* ---- calculateSummary
\* item.topOptions?.[0] || { price: 0, shop: "N/A" }
AbsoluteCheapest(item) ==
    IF item.topOptions.some /\ item.topOptions.val # <<>>
    THEN item.topOptions.val[1]
    ELSE [shop |-> "N/A", price |-> 0]

\* (variant: only the first quote of the item is looked at)
InTopOptionsFirst(item, shop) ==
    IF item.topOptions.some /\ item.topOptions.val # <<>>
       /\ item.topOptions.val[1].shop = shop
    THEN Some(item.topOptions.val[1])
    ELSE [some |-> FALSE, val |-> [shop |-> "N/A", price |-> 0]]

\* (variant: no quote of the item is ever found for the shop)
InTopOptionsNone(item, shop) == [some |-> FALSE, val |-> [shop |-> "N/A", price |-> 0]]

\* item.topOptions?.find(o => o.shop === currentShopName)
InTopOptions(item, shop) ==
    LET list == item.topOptions.val
        hits == {k \in DOMAIN list : list[k].shop = shop}
    IN IF item.topOptions.some /\ hits # {}
       THEN Some(list[CHOOSE k \in hits : \A j \in hits : k <= j])
       ELSE [some |-> FALSE, val |-> [shop |-> "N/A", price |-> 0]]

\* (variant: every positive difference is a savings gap)
IsGapAny(d) == d > 0

\* if (d > 0.01)
IsGap(d) == d > SAVINGS_THRESHOLD

\* the body of the item loop once priceAtThisShop is known
\* (lookedUp records whether it came from getPriceAtShop)
AccountItem(r, item, priceAtThisShop, lookedUp) ==
    LET shop == r.candidates[r.sIdx].name
        absoluteCheapest == AbsoluteCheapest(item)
        isCheapestHere == shop = absoluteCheapest.shop
        d == priceAtThisShop - absoluteCheapest.price
        gap == ~isCheapestHere /\ IsGap(d)
    IN [r EXCEPT
          !.i = @ + 1,
          !.shopTotal = @ + priceAtThisShop,
          !.itemsAtBest = IF isCheapestHere THEN @ + 1 ELSE @,
          !.receipt = Append(@, [itemName |-> item.name, price |-> priceAtThisShop,
                                 isCheapestHere |-> isCheapestHere,
                                 lookedUp |-> lookedUp]),
          !.potentialSavings = IF gap THEN @ + d ELSE @,
          !.diffs = IF gap
                    THEN Append(@, [itemName |-> item.name,
                                    cheapestPrice |-> absoluteCheapest.price,
                                    cheapestShop |-> absoluteCheapest.shop,
                                    bestShopPrice |-> priceAtThisShop,
                                    difference |-> d])
                    ELSE @]

\* calculatedRanked.push({...})
PushCandidate(r) ==
    [r EXCEPT !.calculatedRanked = Append(@,
        [shopName |-> r.candidates[r.sIdx].name,
         distance |-> r.distance,
         numericDistance |-> r.numericDist,
         totalPrice |-> r.shopTotal,
         weight |-> r.candidates[r.sIdx].weight,
         itemsAtBest |-> r.itemsAtBest,
         isClosest |-> FALSE,
         isCheapest |-> FALSE,
         isWithinPreference |-> r.numericDist <= r.maxDistance,
         receipt |-> r.receipt,
         savingsDiff |-> r.diffs,
         potentialSavings |-> r.potentialSavings])]

\* the head of the candidate loop: past the last candidate the run sorts,
\* slices and flags (evaluated keeps the records as they were pushed);
\* otherwise it awaits getStoreBranchDetails
StartCandidate(r, sIdx) ==
    IF sIdx > Len(r.candidates)
    THEN [r EXCEPT !.pc = "done", !.sIdx = sIdx,
                   !.evaluated = r.calculatedRanked,
                   !.calculatedRanked = Finalize(@)]
    ELSE [r EXCEPT !.pc = "branch", !.sIdx = sIdx, !.i = 0,
                   !.distance = <<>>, !.numericDist = 0,
                   !.shopTotal = 0, !.itemsAtBest = 0, !.potentialSavings = 0,
                   !.receipt = <<>>, !.diffs = <<>>,
                   !.branchCalls = Append(@, r.candidates[sIdx].name)]

\* the item loop from readyItems[r.i] on, up to the next await
RECURSIVE EvalItems(_)
EvalItems(r) ==
    IF r.i > Len(r.readyItems)
    THEN StartCandidate(PushCandidate(r), r.sIdx + 1)
    ELSE LET item == r.readyItems[r.i]
             inTopOptions == InTopOptions(item, r.candidates[r.sIdx].name)
         IN IF inTopOptions.some
            THEN EvalItems(AccountItem(r, item, inTopOptions.val.price, FALSE))
            ELSE [r EXCEPT !.pc = "price",
                           !.priceCalls = Append(@, <<r.i, r.candidates[r.sIdx].name>>)]

\* `await getStoreBranchDetails(...)` resolves with this distance string
OnBranch(r, distStr) ==
    EvalItems([r EXCEPT !.distance = distStr,
                        !.numericDist = GetNumericDistance(distStr),
                        !.i = 1])

\* `await getPriceAtShop(...)` resolves with the price parsed from text
OnPrice(r, text) ==
    EvalItems(AccountItem(r, r.readyItems[r.i], GetPriceAtShop(text), TRUE))

\* calculateSummary() as the effect calls it, up to its first await
CalculateSummary(id, fp, its, loc, unit, maxDist) ==
    LET IsReady(i) == i.status = "ready"
        readyItems == SelectSeq(its, IsReady)
    IN StartCandidate(
         [id |-> id, mounted |-> TRUE, fp |-> fp, readyItems |-> readyItems,
          location |-> loc, distanceUnit |-> unit, maxDistance |-> maxDist,
          candidates |-> SortedCandidateShops(readyItems),
          sIdx |-> 0, i |-> 0, distance |-> <<>>, numericDist |-> 0,
          shopTotal |-> 0, itemsAtBest |-> 0, potentialSavings |-> 0,
          receipt |-> <<>>, diffs |-> <<>>, calculatedRanked |-> <<>>,
          evaluated |-> <<>>,
          branchCalls |-> <<>>, priceCalls |-> <<>>, pc |-> "start"], 1)

\* (variant: the run goes on without ready items)
NoReadyItemsNever(r) == FALSE

\* if (readyItems.length === 0) { setLoading(false); return; }
NoReadyItems(r) == r.readyItems = <<>>

NoRun == CalculateSummary(0, EmptyFingerprint, <<>>, "none", "", 0)

\* ---- renders and the SummaryModal effect
\* useEffect(..., [items, location, distanceUnit, maxDistance, cachedData]):
\* a step that mounts the modal, or hands a mounted modal a new items array,
\* a new location object, another unit or distance, or another cachedData
EffectAfter(itemsSet, locSet, cacheSet) ==
    effectPending' =
        /\ Mounted'
        /\ \/ ~Mounted
           \/ itemsSet
           \/ locSet
           \/ distanceUnit' # distanceUnit
           \/ maxDistance' # maxDistance
           \/ IF cacheSet THEN CachedData.some \/ CachedData'.some
              ELSE CachedData' # CachedData

\* (variant: the fingerprint stored is the one current when the run ends)
CompleteCurrentFingerprint(r) ==
    /\ lastDone' = r
    /\ rankedShops' = IF r.mounted THEN r.calculatedRanked ELSE rankedShops
    /\ rankedFp' = IF r.mounted THEN r.fp ELSE rankedFp
    /\ cachedRankedShops' = Some(r.calculatedRanked)
    /\ lastCalculationFingerprint' = CurrentFingerprint

\* onCalculationDone(calculatedRanked): handleSummaryResult of the render the
\* effect ran in, after setRankedShops(calculatedRanked)
Complete(r) ==
    /\ lastDone' = r
    /\ rankedShops' = IF r.mounted THEN r.calculatedRanked ELSE rankedShops
    /\ rankedFp' = IF r.mounted THEN r.fp ELSE rankedFp
    /\ cachedRankedShops' = Some(r.calculatedRanked)
    /\ lastCalculationFingerprint' = r.fp

RemoveAt(seq, k) == SubSeq(seq, 1, k - 1) \o SubSeq(seq, k + 1, Len(seq))

NoEffect ==
    [fp |-> EmptyFingerprint, storedFp |-> EmptyFingerprint,
     hadResult |-> FALSE, doneId |-> 0, shown |-> <<>>, path |-> "",
     calls |-> 0]

\* the effect body
SummaryEffect ==
    /\ effectPending
    /\ Mounted
    /\ LET cachedData == CachedData
           r == CalculateSummary(runsStarted + 1, CurrentFingerprint, items,
                                 CurrentLoc, distanceUnit, maxDistance)
           seen == [fp |-> CurrentFingerprint,
                    storedFp |-> lastCalculationFingerprint,
                    hadResult |-> cachedRankedShops.some,
                    doneId |-> lastDone.id,
                    shown |-> <<>>, path |-> "", calls |-> 0]
       IN
       IF cachedData.some
       THEN /\ rankedShops' = cachedData.val
            /\ rankedFp' = lastCalculationFingerprint
            /\ lastEffect' = [seen EXCEPT !.path = "cached", !.shown = cachedData.val]
            /\ effectPending' = FALSE
            /\ anim' = TRUE
            /\ UNCHANGED <<loading, hideTimers>>
            /\ UNCHANGED <<runs, runsStarted, lastDone, cachedRankedShops,
                           lastCalculationFingerprint>>
       ELSE IF NoReadyItems(r)
       THEN /\ lastEffect' = [seen EXCEPT !.path = "empty"]
            /\ effectPending' = FALSE
            /\ loading' = FALSE
            /\ anim' = FALSE
            /\ UNCHANGED hideTimers
            /\ UNCHANGED <<runs, runsStarted, lastDone, cachedRankedShops,
                           lastCalculationFingerprint, rankedShops, rankedFp>>
       ELSE /\ runsStarted < MaxRuns
            /\ runsStarted' = runsStarted + 1
            /\ lastEffect' = [seen EXCEPT !.path = "calculated",
                                          !.calls = Len(r.branchCalls)]
            /\ loading' = TRUE
            /\ anim' = FALSE
            /\ IF r.pc = "done"
               THEN /\ Complete(r)
                    /\ hideTimers' = hideTimers + 1
                    /\ effectPending' = TRUE
                    /\ UNCHANGED runs
               ELSE /\ runs' = Append(runs, r)
                    /\ effectPending' = FALSE
                    /\ UNCHANGED hideTimers
                    /\ UNCHANGED <<lastDone, cachedRankedShops,
                                   lastCalculationFingerprint, rankedShops, rankedFp>>
    /\ UNCHANGED <<maxDistance, distanceUnit, showSummary, changes>>
    /\ UNCHANGED itVars

\* a suspended calculateSummary goes on to its next await or to its end
Resume(k, r) ==
    /\ UNCHANGED changes
    /\ UNCHANGED <<maxDistance, distanceUnit, showSummary, runsStarted>>
    /\ lastEffect' = NoEffect
    /\ UNCHANGED itVars
    /\ UNCHANGED <<loading, anim>>
    /\ IF r.pc = "done"
       THEN /\ Complete(r)
            /\ hideTimers' = IF r.mounted THEN hideTimers + 1 ELSE hideTimers
            /\ runs' = RemoveAt(runs, k)
            /\ EffectAfter(FALSE, FALSE, TRUE)
       ELSE /\ runs' = [runs EXCEPT ![k] = r]
            /\ UNCHANGED hideTimers
            /\ UNCHANGED <<lastDone, cachedRankedShops, lastCalculationFingerprint,
                           rankedShops, rankedFp, effectPending>>

\* `await getStoreBranchDetails(...)` of run k resolves
BranchResolved(k, distStr) ==
    /\ ~effectPending
    /\ k \in DOMAIN runs
    /\ runs[k].pc = "branch"
    /\ Resume(k, OnBranch(runs[k], distStr))

\* `await getPriceAtShop(...)` of run k resolves
PriceAtResolved(k, text) ==
    /\ ~effectPending
    /\ k \in DOMAIN runs
    /\ runs[k].pc = "price"
    /\ Resume(k, OnPrice(runs[k], text))

\* (variant: a rejected run hands over the records it had pushed)
RunRejectedStoring(k) ==
    /\ ~effectPending
    /\ k \in DOMAIN runs
    /\ runs' = RemoveAt(runs, k)
    /\ cachedRankedShops' = Some(runs[k].calculatedRanked)
    /\ lastCalculationFingerprint' = runs[k].fp
    /\ UNCHANGED ldVars
    /\ lastEffect' = [NoEffect EXCEPT !.path = "rejected", !.fp = runs[k].fp,
                                      !.storedFp = lastCalculationFingerprint,
                                      !.hadResult = cachedRankedShops.some,
                                      !.doneId = lastDone.id,
                                      !.shown = runs[k].calculatedRanked]
    /\ UNCHANGED changes
    /\ UNCHANGED <<maxDistance, distanceUnit, showSummary, runsStarted,
                   lastDone, rankedShops, rankedFp>>
    /\ UNCHANGED itVars
    /\ EffectAfter(FALSE, FALSE, TRUE)

\* either await of run k rejects: calculateSummary has no catch (the step
\* is recorded with the records the run had pushed)
RunRejected(k) ==
    /\ ~effectPending
    /\ k \in DOMAIN runs
    /\ runs' = RemoveAt(runs, k)
    /\ UNCHANGED ldVars
    /\ lastEffect' = [NoEffect EXCEPT !.path = "rejected", !.fp = runs[k].fp,
                                      !.storedFp = lastCalculationFingerprint,
                                      !.hadResult = cachedRankedShops.some,
                                      !.doneId = lastDone.id,
                                      !.shown = runs[k].calculatedRanked]
    /\ UNCHANGED changes
    /\ UNCHANGED <<maxDistance, distanceUnit, showSummary, runsStarted,
                   lastDone, cachedRankedShops, lastCalculationFingerprint,
                   rankedShops, rankedFp, effectPending>>
    /\ UNCHANGED itVars

\* the summary button: onClick={() => setShowSummary(true)}
OpenSummary ==
    /\ ~showSummary
    /\ items # <<>>
    /\ \E k \in DOMAIN items : items[k].status = "ready"
    /\ showSummary' = TRUE
    /\ UNCHANGED ldVars
    /\ lastEffect' = NoEffect
    /\ UNCHANGED changes
    /\ UNCHANGED <<maxDistance, distanceUnit, runs, runsStarted,
                   lastDone, cachedRankedShops, lastCalculationFingerprint,
                   rankedShops, rankedFp>>
    /\ UNCHANGED itVars
    /\ EffectAfter(FALSE, FALSE, FALSE)

\* onClose={() => setShowSummary(false)}: the modal unmounts, its runs go on
CloseSummary ==
    /\ ~effectPending
    /\ Mounted
    /\ showSummary' = FALSE
    /\ effectPending' = FALSE
    /\ rankedShops' = <<>>
    /\ rankedFp' = EmptyFingerprint
    /\ runs' = [k \in DOMAIN runs |-> [runs[k] EXCEPT !.mounted = FALSE]]
    /\ loading' = TRUE
    /\ anim' = FALSE
    /\ hideTimers' = 0
    /\ lastEffect' = NoEffect
    /\ UNCHANGED changes
    /\ UNCHANGED <<maxDistance, distanceUnit, runsStarted, lastDone,
                   cachedRankedShops, lastCalculationFingerprint>>
    /\ UNCHANGED itVars

\* the settings panel (it covers the summary button, the summary covers it)
SetMaxDistance(d) ==
    /\ ~Mounted
    /\ d # maxDistance
    /\ maxDistance' = d
    /\ UNCHANGED ldVars
    /\ lastEffect' = NoEffect
    /\ changes < MaxChanges
    /\ changes' = changes + 1
    /\ UNCHANGED <<distanceUnit, showSummary, runs, runsStarted,
                   lastDone, cachedRankedShops, lastCalculationFingerprint,
                   rankedShops, rankedFp, effectPending>>
    /\ UNCHANGED itVars

SetDistanceUnit(u) ==
    /\ ~Mounted
    /\ u # distanceUnit
    /\ distanceUnit' = u
    /\ UNCHANGED ldVars
    /\ lastEffect' = NoEffect
    /\ changes < MaxChanges
    /\ changes' = changes + 1
    /\ UNCHANGED <<maxDistance, showSummary, runs, runsStarted,
                   lastDone, cachedRankedShops, lastCalculationFingerprint,
                   rankedShops, rankedFp, effectPending>>
    /\ UNCHANGED itVars

\* handleUpdateLocation: `await getCoordsFromLocation(...)` resolves with coords
LocationResolved(coords) ==
    /\ ~effectPending
    /\ manualLocation' = coords
    /\ location' = coords
    /\ userLocation' = coords
    /\ edges' = {}
    /\ lastRefine' = NoRefine
    /\ UNCHANGED ldVars
    /\ lastEffect' = NoEffect
    /\ changes < MaxChanges
    /\ changes' = changes + 1
    /\ UNCHANGED <<items, nextId, starts, tasks, geo, isDeletingAll>>
    /\ UNCHANGED <<maxDistance, distanceUnit, showSummary, runs, runsStarted,
                   lastDone, cachedRankedShops,
                   lastCalculationFingerprint, rankedShops, rankedFp>>
    /\ EffectAfter(FALSE, TRUE, FALSE)

\* a step of the item list as the summary sees it: setItems hands a mounted
\* modal a new items array, setLocation a new location object
ItemsRender(itemsSet, locSet) ==
    /\ ~effectPending
    /\ UNCHANGED ldVars
    /\ lastEffect' = NoEffect
    /\ UNCHANGED changes
    /\ UNCHANGED <<maxDistance, distanceUnit, showSummary, runs, runsStarted,
                   lastDone, cachedRankedShops,
                   lastCalculationFingerprint, rankedShops, rankedFp>>
    /\ EffectAfter(itemsSet, locSet, FALSE)

\* the progress animation of the cached path reaches 100: its callback arms
\* setTimeout(() => setLoading(false), 200)
AnimDone ==
    /\ ~effectPending
    /\ Mounted
    /\ anim
    /\ anim' = FALSE
    /\ hideTimers' = hideTimers + 1
    /\ lastEffect' = NoEffect
    /\ UNCHANGED loading
    /\ UNCHANGED <<maxDistance, distanceUnit, showSummary, runs, runsStarted,
                   changes, lastDone, cachedRankedShops,
                   lastCalculationFingerprint, rankedShops, rankedFp, effectPending>>
    /\ UNCHANGED itVars

\* an armed setTimeout(() => setLoading(false)) fires
HideTimerFires ==
    /\ ~effectPending
    /\ Mounted
    /\ hideTimers > 0
    /\ hideTimers' = hideTimers - 1
    /\ loading' = FALSE
    /\ lastEffect' = NoEffect
    /\ UNCHANGED anim
    /\ UNCHANGED <<maxDistance, distanceUnit, showSummary, runs, runsStarted,
                   changes, lastDone, cachedRankedShops,
                   lastCalculationFingerprint, rankedShops, rankedFp, effectPending>>
    /\ UNCHANGED itVars

\* ---- the inputs of the summary specifications
\* Branch Locator distance strings and single-price texts
DistanceTexts == { <<"3", "km">>, <<"10", "km">>, <<"Nearby">> }
PriceTexts == { <<"1.50">>, <<"unavailable">> }
CacheDistanceTexts == { <<"3", "km">> }
CacheRefineValues == {v \in RefineValues : v.name = "whole milk"}
CachePriceValues ==
    {v \in PriceValues : ~v.isNull /\ v.list # <<>> /\ IsSortedByPrice(v.list)}
MaxDistances == {5, DEFAULT_MAX_DISTANCE}
DistanceUnits == {"metric", "imperial"}
ManualPlaces == {"town", "gpsB"}
RunIds == 1..MaxRuns

\* quote lists of ready items (unset: made ready without a location)
ShopA == "ShopA"
ShopB == "ShopB"
Quote(shop, price) == [shop |-> shop, price |-> price]
RankQuoteLists ==
    << Some(<<Quote(ShopA, 2000), Quote(ShopB, 2500)>>),
       Some(<<Quote(ShopA, 1000), Quote(ShopB, 800)>>),
       Some(<<Quote(ShopB, 1000), Quote(ShopA, 1005)>>),
       Some(<<Quote("ShopC", 3000), Quote("ShopD", 3500)>>),
       Some(<<Quote(ShopA, 3000), Quote(ShopB, 4000)>>),
       Some(<<Quote(ShopA, 1000), Quote(ShopB, 1000)>>),
       Some(<<Quote(ShopA, 2000)>>),
       Some(<<>>),
       NoSeq >>
RankNames == <<"whole milk", "white bread">>

\* a drawn ranking input holds at most the items the user adds
MaxReady == Len(ItemsToAdd)

\* an item as continueWithItem leaves it at ready
ReadyItem(id, opt) ==
    LET cheapest == IF opt.val # <<>> THEN opt.val[1]
                    ELSE [shop |-> "Unknown", price |-> 0]
    IN [id |-> id, originalName |-> RankNames[id], name |-> RankNames[id],
        status |-> "ready", options |-> NoSeq, topOptions |-> opt,
        cheapestShop |-> IF opt.some THEN cheapest.shop ELSE Undefined,
        price |-> IF opt.some THEN Some(cheapest.price) ELSE NoNumber,
        error |-> NoSeq]

RankItems ==
    UNION { { [k \in 1..n |-> ReadyItem(k, RankQuoteLists[f[k]])] :
                f \in [1..n -> DOMAIN RankQuoteLists] } : n \in 1..MaxReady }

SmRest ==
    /\ showSummary = FALSE
    /\ lastCalculationFingerprint = EmptyFingerprint
    /\ cachedRankedShops = NoSeq
    /\ effectPending = FALSE
    /\ rankedShops = <<>>
    /\ rankedFp = EmptyFingerprint
    /\ runs = <<>>
    /\ runsStarted = 0
    /\ changes = 0
    /\ loading = TRUE
    /\ anim = FALSE
    /\ hideTimers = 0
    /\ lastEffect = NoEffect
    /\ lastDone = NoRun

SmInit ==
    /\ maxDistance = DEFAULT_MAX_DISTANCE
    /\ distanceUnit = "metric"
    /\ SmRest

\* the list and the summary together (the user keeps one item at a time)
CacheNext ==
    \/ /\ ~Mounted
       /\ items = <<>>
       /\ \E text \in {ItemsToAdd[k] : k \in DOMAIN ItemsToAdd} : AddItem(text)
       /\ ItemsRender(TRUE, FALSE)
       /\ UNCHANGED gwVars
    \/ /\ \E t \in tasks, v \in CacheRefineValues : RefineResolved(t, v)
       /\ ItemsRender(TRUE, FALSE)
       /\ UNCHANGED gwVars
    \/ /\ \E t \in tasks, v \in CachePriceValues : PriceResolved(t, v)
       /\ ItemsRender(TRUE, FALSE)
       /\ UNCHANGED gwVars
    \/ /\ ~Mounted
       /\ \E id \in Ids : DeleteItem(id)
       /\ ItemsRender(TRUE, FALSE)
       /\ UNCHANGED gwVars
    \/ \E ok \in BOOLEAN : GeoResult(ok) /\ ItemsRender(FALSE, ok) /\ UNCHANGED gwVars
    \/ \E coords \in ManualPlaces : LocationResolved(coords) /\ UNCHANGED gwVars
    \/ OpenSummary /\ UNCHANGED gwVars
    \/ CloseSummary /\ UNCHANGED gwVars
    \/ \E d \in MaxDistances : SetMaxDistance(d) /\ UNCHANGED gwVars
    \/ \E u \in DistanceUnits : SetDistanceUnit(u) /\ UNCHANGED gwVars
    \/ SummaryEffect /\ UNCHANGED gwVars
    \/ \E k \in RunIds, d \in CacheDistanceTexts : BranchResolved(k, d) /\ UNCHANGED gwVars

\* one ranking run over a drawn list of ready items
RankNext ==
    \/ OpenSummary /\ UNCHANGED gwVars
    \/ SummaryEffect /\ UNCHANGED gwVars
    \/ \E k \in RunIds, d \in DistanceTexts : BranchResolved(k, d) /\ UNCHANGED gwVars
    \/ \E k \in RunIds, t \in PriceTexts : PriceAtResolved(k, t) /\ UNCHANGED gwVars

RankInit ==
    /\ GwInit
    /\ items \in RankItems
    /\ nextId = Len(items)
    /\ starts = 0
    /\ tasks = {}
    /\ location = "gps"
    /\ manualLocation = "gps"
    /\ userLocation = "none"
    /\ geo = "done"
    /\ isDeletingAll = FALSE
    /\ edges = {}
    /\ lastRefine = NoRefine
    /\ maxDistance \in MaxDistances
    /\ distanceUnit = "metric"
    /\ SmRest

\* the summary over a fixed list, its calls resolving or rejecting, the
\* modal's timers firing, the user closing, reopening and changing inputs
ModalQuoteLists ==
    << Some(<<Quote(ShopA, 2000), Quote(ShopB, 2500)>>),
       Some(<<Quote(ShopA, 2000)>>) >>

ModalItems ==
    { [k \in 1..n |-> ReadyItem(k, ModalQuoteLists[k])] : n \in 1..MaxReady }

ModalPriceTexts == { <<"1.50">> }

ModalNext ==
    \/ OpenSummary /\ UNCHANGED gwVars
    \/ CloseSummary /\ UNCHANGED gwVars
    \/ SummaryEffect /\ UNCHANGED gwVars
    \/ \E k \in RunIds, d \in CacheDistanceTexts : BranchResolved(k, d) /\ UNCHANGED gwVars
    \/ \E k \in RunIds, t \in ModalPriceTexts : PriceAtResolved(k, t) /\ UNCHANGED gwVars
    \/ \E k \in RunIds : RunRejected(k) /\ UNCHANGED gwVars
    \/ AnimDone /\ UNCHANGED gwVars
    \/ HideTimerFires /\ UNCHANGED gwVars
    \/ \E d \in MaxDistances : SetMaxDistance(d) /\ UNCHANGED gwVars
    \/ \E coords \in ManualPlaces : LocationResolved(coords) /\ UNCHANGED gwVars

ModalInit ==
    /\ GwInit
    /\ items \in ModalItems
    /\ nextId = Len(items)
    /\ starts = 0
    /\ tasks = {}
    /\ location = "gps"
    /\ manualLocation = "gps"
    /\ userLocation = "none"
    /\ geo = "done"
    /\ isDeletingAll = FALSE
    /\ edges = {}
    /\ lastRefine = NoRefine
    /\ SmInit

\* the candidate loop over lists that quote up to six shops between them
LocatorQuoteLists ==
    << Some(<<Quote("ShopC", 3000), Quote("ShopD", 3500), Quote("ShopE", 3600)>>),
       Some(<<Quote("ShopF", 1000), Quote("ShopG", 1200), Quote("ShopH", 1300)>>),
       Some(<<Quote(ShopA, 2000), Quote(ShopB, 2500)>>) >>

LocatorItems ==
    UNION { { [k \in 1..n |-> ReadyItem(k, LocatorQuoteLists[f[k]])] :
                f \in [1..n -> DOMAIN LocatorQuoteLists] } : n \in 1..MaxReady }

LocatorNext ==
    \/ OpenSummary /\ UNCHANGED gwVars
    \/ SummaryEffect /\ UNCHANGED gwVars
    \/ \E k \in RunIds, d \in CacheDistanceTexts : BranchResolved(k, d) /\ UNCHANGED gwVars
    \/ \E k \in RunIds, t \in PriceTexts : PriceAtResolved(k, t) /\ UNCHANGED gwVars

LocatorInit ==
    /\ GwInit
    /\ items \in LocatorItems
    /\ nextId = Len(items)
    /\ starts = 0
    /\ tasks = {}
    /\ location = "gps"
    /\ manualLocation = "gps"
    /\ userLocation = "none"
    /\ geo = "done"
    /\ isDeletingAll = FALSE
    /\ edges = {}
    /\ lastRefine = NoRefine
    /\ SmInit

\* ============================================ one pipeline, end to end
\* (processItem and continueWithItem of one item through handleApiCall:
\* refineItem is the first call of the gateway, findTopPriceOptions the
\* second.)  A response text is a sequence of tokens: "[" and "]", "word"
\* (prose), "null", an object token of the resolver, a quote token.

\* the objects a price response can hold
QuoteOf(tok) ==
    CASE tok = "qA" -> [shop |-> "ShopA", price |-> 2000]
      [] tok = "qB" -> [shop |-> "ShopB", price |-> 2500]
QuoteTokens == {"qA", "qB"}

\* the objects a resolver response can hold
RefineObjectOf(tok) ==
    CASE tok = "specific" ->
             [isNull |-> FALSE, name |-> "whole milk", isVague |-> FALSE,
              options |-> NoSeq]
      [] tok = "vague" ->
             [isNull |-> FALSE, name |-> "bread", isVague |-> TRUE,
              options |-> Some(<<"white bread", "wholemeal bread">>)]
      [] tok = "{}" ->
             [isNull |-> FALSE, name |-> Undefined, isVague |-> FALSE,
              options |-> NoSeq]
RefineObjectTokens == {"specific", "vague", "{}"}

\* what JSON.parse throws
SyntaxError == [status |-> 0, code |-> 0, message |-> <<"Unexpected", "token">>]

\* text.match(/\[.*\]/s): from the first "[" to the last "]" after it
JsonMatch(text) ==
    LET opens == {k \in DOMAIN text : text[k] = "["}
        first == CHOOSE k \in opens : \A j \in opens : k <= j
        closes == {k \in DOMAIN text : text[k] = "]" /\ k > first}
        last == CHOOSE k \in closes : \A j \in closes : k >= j
    IN IF opens # {} /\ closes # {}
       THEN Some(SubSeq(text, first, last))
       ELSE NoSeq

\* JSON.parse(src) where an array of quotes or null is expected
ParseQuotes(src) ==
    IF src = <<"null">>
    THEN [threw |-> FALSE, value |-> [isNull |-> TRUE, list |-> <<>>]]
    ELSE IF /\ Len(src) >= 2
            /\ src[1] = "["
            /\ src[Len(src)] = "]"
            /\ \A k \in 2..(Len(src) - 1) : src[k] \in QuoteTokens
    THEN [threw |-> FALSE,
          value |-> [isNull |-> FALSE,
                     list |-> [k \in 1..(Len(src) - 2) |-> QuoteOf(src[k + 1])]]]
    ELSE [threw |-> TRUE, value |-> [isNull |-> FALSE, list |-> <<>>]]

\* (variant: the parse error leaves the thunk)
FindTopPriceOptionsThrowing(responseText) ==
    LET text == IF responseText = <<>> THEN <<"[", "]">> ELSE responseText
        jsonMatch == JsonMatch(text)
    IN ParseQuotes(IF jsonMatch.some THEN jsonMatch.val ELSE text)

\* the thunk of findTopPriceOptions on a response text: what it returns, or
\* that it throws
FindTopPriceOptions(responseText) ==
    LET text == IF responseText = <<>> THEN <<"[", "]">> ELSE responseText
        jsonMatch == JsonMatch(text)
        parsed == ParseQuotes(IF jsonMatch.some THEN jsonMatch.val ELSE text)
    IN IF parsed.threw
       THEN [threw |-> FALSE, value |-> [isNull |-> FALSE, list |-> <<>>]]
       ELSE parsed

\* the thunk of refineItem on a response text:
\* return JSON.parse(response.text || "{}")
RefineItem(responseText) ==
    LET text == IF responseText = <<>> THEN <<"{}">> ELSE responseText
        none == [isNull |-> FALSE, name |-> Undefined, isVague |-> FALSE,
                 options |-> NoSeq]
    IN IF Len(text) = 1 /\ text[1] \in RefineObjectTokens
       THEN [threw |-> FALSE, value |-> RefineObjectOf(text[1])]
       ELSE IF text = <<"null">>
       THEN [threw |-> FALSE, value |-> [none EXCEPT !.isNull = TRUE]]
       ELSE IF text = <<"[", "]">>
       THEN [threw |-> FALSE, value |-> none]
       ELSE [threw |-> TRUE, value |-> none]

PriceResponseTexts ==
    { <<>>, <<"word">>, <<"[", "word", "]">>, <<"[", "]">>, <<"null">>,
      <<"[", "qA", "qB", "]">>, <<"word", "[", "qB", "qA", "]", "word">>,
      <<"[", "qA", "]", "[", "qB", "]">> }

RefineResponseTexts ==
    { <<>>, <<"word">>, <<"specific", "word">>, <<"null">>, <<"[", "]">>,
      <<"{}">>, <<"specific">>, <<"vague">> }

REFINE_CALL == 1
PRICE_CALL == 2

\* a call enters handleApiCall (the synchronous head of throttle) in the
\* step in which the call before it, if any, returns
PipelineEnter(c, isSearch, returned) ==
    LET id == Len(tickets) + 1 IN
    /\ c \in Calls
    /\ calls[c].pc = "idle"
    /\ tickets' = Append(tickets, [call |-> c, isSearch |-> isSearch,
                                   prev |-> requestQueue, admitted |-> FALSE,
                                   gap |-> 0])
    /\ requestQueue' = id
    /\ calls' = [k \in Calls |->
                   IF k = c
                   THEN [calls[k] EXCEPT !.pc = "awaitQueue", !.isSearch = isSearch,
                                         !.retries = DEFAULT_RETRIES,
                                         !.prev = requestQueue, !.mine = id]
                   ELSE IF k = returned
                   THEN [calls[k] EXCEPT !.pc = "resolved"]
                   ELSE calls[k]]
    /\ UNCHANGED <<settled, admitOrder, sinceAdmit, sinceStart>>

\* the thunk of call c threw e: the catch block of handleApiCall, and the
\* catch block of the pipeline when handleApiCall rejects
PipelineCatch(c, t, e) ==
    LET next == HandleFailure(calls[c], e) IN
    /\ calls' = [calls EXCEPT ![c] = next]
    /\ UNCHANGED <<requestQueue, settled, tickets, admitOrder,
                   sinceAdmit, sinceStart>>
    /\ IF next.pc = "rejected"
       THEN TaskRejected(t, next.error)
       ELSE UNCHANGED itVars

\* addItem for the one item of this pipeline
PipelineAdd ==
    /\ items = <<>>
    /\ AddItem(ItemsToAdd[1])
    /\ PipelineEnter(REFINE_CALL, FALSE, 0)

\* the backend answers the refineItem request with this text
RefineResponds(t, text) ==
    LET r == RefineItem(text) IN
    /\ t \in tasks
    /\ t.stage = "refine"
    /\ calls[REFINE_CALL].pc = "inflight"
    /\ IF r.threw
       THEN PipelineCatch(REFINE_CALL, t, SyntaxError)
       ELSE /\ RefineResolved(t, r.value)
            /\ IF \E u \in tasks' : u.stage = "price"
               THEN PipelineEnter(PRICE_CALL, TRUE, REFINE_CALL)
               ELSE Succeed(REFINE_CALL)

\* an option is picked for the vague item
PipelinePick(name) ==
    /\ items # <<>>
    /\ PickOption(items[1].id, name)
    /\ PipelineEnter(PRICE_CALL, TRUE, 0)

\* the backend answers the findTopPriceOptions request with this text
PriceResponds(t, text) ==
    LET r == FindTopPriceOptions(text) IN
    /\ t \in tasks
    /\ t.stage = "price"
    /\ calls[PRICE_CALL].pc = "inflight"
    /\ IF r.threw
       THEN PipelineCatch(PRICE_CALL, t, SyntaxError)
       ELSE /\ PriceResolved(t, r.value)
            /\ Succeed(PRICE_CALL)

\* the request of call c fails with e
BackendFails(c, t, e) ==
    /\ t \in tasks
    /\ t.stage = IF c = REFINE_CALL THEN "refine" ELSE "price"
    /\ calls[c].pc = "inflight"
    /\ PipelineCatch(c, t, e)

PipelineNext ==
    \/ PipelineAdd /\ UNCHANGED smVars
    \/ \E c \in Calls : StartGap(c) /\ UNCHANGED <<itVars, smVars>>
    \/ \E c \in Calls : Admit(c) /\ UNCHANGED <<itVars, smVars>>
    \/ \E c \in Calls : Retry(c) /\ UNCHANGED <<itVars, smVars>>
    \/ Tick /\ UNCHANGED <<itVars, smVars>>
    \/ \E t \in tasks, text \in RefineResponseTexts :
           RefineResponds(t, text) /\ UNCHANGED smVars
    \/ \E name \in PickTexts : PipelinePick(name) /\ UNCHANGED smVars
    \/ \E t \in tasks, text \in PriceResponseTexts :
           PriceResponds(t, text) /\ UNCHANGED smVars
    \/ \E c \in {REFINE_CALL, PRICE_CALL}, t \in tasks, e \in LaneErrors :
           BackendFails(c, t, e) /\ UNCHANGED smVars

PipelineInit ==
    /\ GwInit
    /\ items = <<>>
    /\ nextId = 0
    /\ starts = 0
    /\ tasks = {}
    /\ location = "gps"
    /\ manualLocation = "gps"
    /\ userLocation = "none"
    /\ geo = "done"
    /\ isDeletingAll = FALSE
    /\ edges = {}
    /\ lastRefine = NoRefine
    /\ SmInit


\* ======================================================= specifications
vars == <<requestQueue, settled, tickets, admitOrder, calls,
          sinceAdmit, sinceStart,
          items, nextId, starts, tasks, location, manualLocation, userLocation, geo,
          isDeletingAll, edges, lastRefine,
          maxDistance, distanceUnit, showSummary, lastCalculationFingerprint,
          cachedRankedShops, effectPending, rankedShops, rankedFp, runs, runsStarted,
          changes, loading, anim, hideTimers, lastEffect, lastDone>>

Init == GwInit /\ ItInit /\ SmInit

\* the gateway under several callers
Next ==
    /\ \/ \E c \in Calls, s \in BOOLEAN : Issue(c, s)
       \/ \E c \in Calls : StartGap(c)
       \/ \E c \in Calls : Admit(c)
       \/ \E c \in Calls : Succeed(c)
       \/ \E c \in Calls, e \in LaneErrors : Fail(c, e)
       \/ \E c \in Calls : Retry(c)
       \/ Tick
    /\ UNCHANGED itVars
    /\ UNCHANGED smVars

Spec == Init /\ [][Next]_vars

\* A single caller, every kind of thrown error.
NextRetry ==
    /\ \/ \E s \in BOOLEAN : Issue(1, s)
       \/ StartGap(1)
       \/ Admit(1)
       \/ Succeed(1)
       \/ \E e \in ThrownErrors : Fail(1, e)
       \/ Retry(1)
       \/ Tick
    /\ UNCHANGED itVars
    /\ UNCHANGED smVars

SpecRetry == Init /\ [][NextRetry]_vars

\* the item list, its pipelines completing in any order
NextItems == ItNext /\ UNCHANGED gwVars /\ UNCHANGED smVars

SpecItems == Init /\ [][NextItems]_vars

\* the item list with the strategy summary and its cache
SpecCache == Init /\ [][CacheNext]_vars

\* calculateSummary over drawn ready items and backend answers
SpecRank == RankInit /\ [][RankNext]_vars

SpecModal == ModalInit /\ [][ModalNext]_vars

\* calculateSummary over ready items that quote more shops than
\* MAX_CANDIDATES
SpecLocator == LocatorInit /\ [][LocatorNext]_vars

\* one item from addItem to ready or error, its two calls passing the
\* gateway and answered with response texts
SpecPipeline == PipelineInit /\ [][PipelineNext]_vars

\* Timers fire, promise continuations run, and every backend attempt
\* eventually returns or fails.
FairSpec ==
    /\ Spec
    /\ WF_vars(Tick /\ UNCHANGED <<itVars, smVars>>)
    /\ \A c \in Calls :
        /\ WF_vars(StartGap(c) /\ UNCHANGED <<itVars, smVars>>)
        /\ WF_vars(Admit(c) /\ UNCHANGED <<itVars, smVars>>)
        /\ WF_vars(Retry(c) /\ UNCHANGED <<itVars, smVars>>)
        /\ WF_vars((Succeed(c) \/ \E e \in LaneErrors : Fail(c, e)) /\ UNCHANGED <<itVars, smVars>>)

\* ================================================================ claims
InFlight == {c \in Calls : calls[c].pc = "inflight"}
InGap == {c \in Calls : calls[c].pc = "gap"}
Admitted == {t \in 1..Len(tickets) : tickets[t].admitted}
Last(q) == q[Len(q)]

\* elapsed time known to separate the first admission from the k-th one
RECURSIVE SinceFirstAdmit(_)
SinceFirstAdmit(k) ==
    IF k <= 1 THEN 0 ELSE tickets[admitOrder[k]].gap + SinceFirstAdmit(k - 1)

\* C1: consecutive lane admissions are at least the admitted call's own class
\* delay apart (SEARCH_DELAY for a search call, BASE_DELAY otherwise), so the
\* k-th admission comes no earlier than (k-1)*BASE_DELAY after the first.
C1_MinimumGap ==
    \A k \in 2..Len(admitOrder) :
        LET t == admitOrder[k] IN
        /\ tickets[t].gap >= (IF tickets[t].isSearch THEN SEARCH_DELAY ELSE BASE_DELAY)
        /\ SinceFirstAdmit(k) >= (k - 1) * BASE_DELAY

C1_Witness ==
    /\ Len(admitOrder) >= 3
    /\ \E k \in 2..Len(admitOrder) : tickets[admitOrder[k]].isSearch
    /\ \E k \in 2..Len(admitOrder) : ~tickets[admitOrder[k]].isSearch

\* C2: lane admissions happen in the order of the throttle() entries: the
\* k-th admission is the k-th entry, whatever the classes of the calls.
C2_FifoAdmission ==
    \A k \in 1..Len(admitOrder) : admitOrder[k] = k

C2_Witness ==
    /\ Len(admitOrder) >= 3
    /\ tickets[1].isSearch /\ ~tickets[2].isSearch
    /\ tickets[1].call # tickets[2].call

\* C3: every backend attempt, first or retry, follows a lane admission of
\* its own (an admitted ticket of that call used by no other attempt) and
\* starts at least BASE_DELAY after the previous backend attempt started.
C3_AttemptsPassTheLane ==
    \A c \in Calls :
        \A i \in 1..Len(calls[c].attempts) :
            LET a == calls[c].attempts[i] IN
            /\ a.ticket \in Admitted
            /\ tickets[a.ticket].call = c
            /\ \A j \in 1..Len(calls[c].attempts) :
                   j # i => calls[c].attempts[j].ticket # a.ticket
            /\ a.gap >= BASE_DELAY

C3_Witness ==
    \E c, d \in Calls :
        /\ c # d
        /\ Len(calls[c].attempts) = 2
        /\ Len(calls[d].attempts) = 2

\* C4 (as claimed): at most one admitted backend call is in flight.
C4_OneInFlight == Cardinality(InFlight) <= 1

\* C4 (amended): at most one call at a time is in the lane's gap timer, and
\* calls that are in flight together were started at least BASE_DELAY apart.
C4_StartsAreSerial ==
    /\ Cardinality(InGap) <= 1
    /\ \A c, d \in InFlight :
           calls[c].mine < calls[d].mine => tickets[calls[d].mine].gap >= BASE_DELAY

C4_Witness ==
    /\ Cardinality(InFlight) = 2
    /\ \A c \in InFlight : Len(calls[c].attempts) = 1

\* ---- retry policy
IsDaily429(e) == StatusOf(e) = 429 /\ IsExplicitlyDaily(e)
IsPlain429(e) == StatusOf(e) = 429 /\ ~IsExplicitlyDaily(e)
Settled(cr) == cr.pc \in {"resolved", "rejected"}

\* C5: a 429 failure whose message has a daily signal ends the call at once:
\* no further attempt, GeminiError 429 with isDaily and the daily message; a
\* non-daily 429 that is surfaced carries isDaily = FALSE and the
\* wait-60-seconds message.
C5_DailyNeverRetried ==
    \A c \in Calls :
        LET cr == calls[c] IN
        /\ \A i \in 1..Len(cr.fails) :
               IsDaily429(cr.fails[i]) =>
                   /\ i = Len(cr.fails)
                   /\ Len(cr.attempts) = i
                   /\ cr.pc = "rejected"
                   /\ cr.error = [status |-> 429, isRateLimit |-> TRUE,
                                  isDaily |-> TRUE, message |-> MSG_DAILY]
        /\ (cr.pc = "rejected" /\ IsPlain429(Last(cr.fails))) =>
               cr.error = [status |-> 429, isRateLimit |-> TRUE,
                           isDaily |-> FALSE, message |-> MSG_TEMPORARY]

C5_Witness ==
    /\ calls[1].pc = "rejected"
    /\ calls[1].error.isDaily
    /\ Len(calls[1].attempts) = 1
    /\ calls[1].fails[1].status = 429

\* C6 (as claimed): every non-daily 429 failure of a call is retried once:
\* the wait-60-seconds error is surfaced only after a retry made for a 429.
C6_Every429Retried ==
    \A c \in Calls :
        LET cr == calls[c] IN
        (cr.pc = "rejected" /\ IsPlain429(Last(cr.fails))) =>
            /\ Len(cr.fails) = 2
            /\ IsPlain429(cr.fails[1])

\* C6 (amended): a non-daily 429 on the first attempt of a call is retried
\* once after RATE_LIMIT_BACKOFF; a non-daily 429 on the retry attempt, after
\* a 429 or a transient failure alike, is surfaced at once as the
\* wait-60-seconds error.
C6_First429Retried ==
    \A c \in Calls :
        LET cr == calls[c] IN
        /\ (Len(cr.fails) >= 1 /\ IsPlain429(cr.fails[1])) =>
               /\ cr.waited # <<>>
               /\ cr.waited[1] = RATE_LIMIT_BACKOFF
               /\ (Len(cr.fails) = 1 => cr.pc # "rejected")
        /\ (Len(cr.fails) = 2 /\ IsPlain429(cr.fails[2])) =>
               /\ cr.pc = "rejected"
               /\ cr.error.message = MSG_TEMPORARY
               /\ Len(cr.attempts) = 2
        /\ (cr.pc = "rejected" /\ cr.error.message = MSG_TEMPORARY) =>
               Len(cr.fails) = 2

C6_Witness ==
    /\ calls[1].pc = "rejected"
    /\ Len(calls[1].fails) = 2
    /\ calls[1].fails[1].status = 503
    /\ IsPlain429(calls[1].fails[2])
    /\ calls[1].error.message = MSG_TEMPORARY

\* a failure the claim calls transient: status >= 500, or no status at all
NoStatus(e) == e.status = 0 /\ e.code = 0
ClaimedTransient(e) ==
    \/ e.status >= 500
    \/ (e.status = 0 /\ e.code >= 500)
    \/ NoStatus(e)

\* C7 (as claimed): a transient failure on the first attempt is never
\* surfaced to the caller.
C7_TransientRetried ==
    \A c \in Calls :
        LET cr == calls[c] IN
        (Len(cr.fails) = 1 /\ ClaimedTransient(cr.fails[1])) => cr.pc # "rejected"

\* C7 (amended): a failure with status >= 500, or with no status and no
\* "429" in its message, is retried after TRANSIENT_BACKOFF while a retry
\* is left; it is surfaced only as the failure of the last allowed attempt.
C7_TransientRetriedUnless429 ==
    \A c \in Calls :
        LET cr == calls[c] IN
        /\ (Len(cr.fails) >= 1 /\ ClaimedTransient(cr.fails[1])
              /\ ~(NoStatus(cr.fails[1]) /\ Includes(cr.fails[1].message, <<"429">>))) =>
               /\ cr.waited # <<>>
               /\ cr.waited[1] = TRANSIENT_BACKOFF
               /\ (Len(cr.fails) = 1 => cr.pc # "rejected")
        /\ (cr.pc = "rejected" /\ cr.error.status >= 500) =>
               Len(cr.attempts) = DEFAULT_RETRIES + 1

C7_Witness ==
    /\ calls[1].pc = "resolved"
    /\ Len(calls[1].fails) = 1
    /\ NoStatus(calls[1].fails[1])
    /\ calls[1].waited = <<TRANSIENT_BACKOFF>>

FairLaneSpec ==
    /\ Spec
    /\ WF_vars(Tick /\ UNCHANGED <<itVars, smVars>>)
    /\ \A c \in Calls :
        /\ WF_vars(StartGap(c) /\ UNCHANGED <<itVars, smVars>>)
        /\ WF_vars(Admit(c) /\ UNCHANGED <<itVars, smVars>>)
        /\ WF_vars(Retry(c) /\ UNCHANGED <<itVars, smVars>>)

\* C9: every gateway invocation ends: it makes at most DEFAULT_RETRIES + 1
\* backend attempts, a rejection carries a classified GeminiError, and once
\* entered the call is eventually resolved or rejected (callers are finitely
\* many and a settled call stays settled, so: from some point on every
\* entered call is settled).
C9_EveryCallSettles ==
    /\ [](\A c \in Calls :
             /\ Len(calls[c].attempts) <= DEFAULT_RETRIES + 1
             /\ calls[c].pc = "rejected" =>
                    /\ calls[c].error.status # 0
                    /\ calls[c].error.message # <<>>)
    /\ <>[](\A c \in Calls : calls[c].pc # "idle" => Settled(calls[c]))

C9_Witness ==
    \E c, d \in Calls :
        /\ calls[c].pc = "rejected" /\ Len(calls[c].attempts) = 2
        /\ calls[d].pc = "resolved" /\ Len(calls[d].attempts) = 2

\* the edges of the item state machine
AllowedEdges ==
    { <<"pending", "correcting">>,
      <<"correcting", "vague">>, <<"correcting", "searching">>,
      <<"correcting", "error">>,
      <<"vague", "searching">>,
      <<"searching", "ready">>, <<"searching", "error">>,
      <<"error", "correcting">> }

\* the status changes of the latest step (an updater that rewrites the
\* status it found changes nothing)
StatusChanges == {e \in edges : e[1] # e[2]}

\* C10: whatever the interleaving of add, option pick, retry and delete
\* with the completions of the refine and price calls, every status change
\* an items updater makes is an edge of the item state machine:
\* pending->correcting, correcting->vague, correcting->searching,
\* correcting->error, vague->searching, searching->ready, searching->error,
\* error->correcting; in particular no change leaves ready.
C10_StatusEdges ==
    /\ StatusChanges \subseteq AllowedEdges
    /\ \A e \in StatusChanges : e[1] # "ready"

\* a retried item and a disambiguated item, with a second item in the list
\* and a pipeline still suspended: the latest step took error->correcting,
\* or vague->searching, while the other item is ready or in error
C10_Witness ==
    /\ Len(items) = 2
    /\ \/ /\ <<"error", "correcting">> \in edges
          /\ \E k \in DOMAIN items : items[k].status = "ready"
       \/ /\ <<"vague", "searching">> \in edges
          /\ \E k \in DOMAIN items : items[k].status = "error"
    /\ tasks # {}

\* C11: every ready item has a non-empty canonical name, whatever refineItem
\* resolved to (the field-less payload {} included).
C11_ReadyHasName ==
    \A k \in DOMAIN items :
        items[k].status = "ready" =>
            /\ items[k].name # Undefined
            /\ items[k].name # ""

\* the resolver answered {} for the only item and the item went on to ready
C11_Witness ==
    /\ Len(items) = 1
    /\ items[1].status = "ready"
    /\ items[1].name = Undefined
    /\ items[1].originalName = "milk"

\* C12: every quote list stored on an item is ascending by price, so the
\* first element, which is shown as the item's shop and price and which the
\* ranking takes as the cheapest, has the minimum price of the list.
C12_QuotesSorted ==
    \A k \in DOMAIN items :
        items[k].topOptions.some =>
            LET list == items[k].topOptions.val IN
            /\ IsSortedByPrice(list)
            /\ list # <<>> =>
                   /\ items[k].price = Some(list[1].price)
                   /\ \A a \in DOMAIN list : list[1].price <= list[a].price

\* a ready item shown at 2.50 while its list holds a quote of 2.00
C12_Witness ==
    \E k \in DOMAIN items :
        /\ items[k].status = "ready"
        /\ items[k].topOptions.some
        /\ items[k].price = Some(2500)
        /\ \E a \in DOMAIN items[k].topOptions.val :
               items[k].topOptions.val[a].price = 2000
\* ---- the result cache

\* the inputs a finished run ranked, against the inputs of the present render
SameInputs(r) ==
    /\ ReadyKeys(r.readyItems) = ReadyKeys(items)
    /\ LocKey(r.location) = LocKey(CurrentLoc)
    /\ r.maxDistance = maxDistance
    /\ r.distanceUnit = distanceUnit

\* the effect ran in the latest step, and no run finished within that step
EffectRan ==
    /\ lastEffect.path \in {"cached", "empty", "calculated"}
    /\ lastEffect.doneId = lastDone.id

C14_CacheExactlyOnSameInputs ==
    EffectRan
        => /\ (lastEffect.path = "cached")
                <=> (lastDone.id # 0 /\ SameInputs(lastDone))
           /\ lastEffect.path = "cached" => lastEffect.shown = lastDone.calculatedRanked
           /\ (lastDone.id # 0 /\ ~SameInputs(lastDone) /\ ReadyKeys(items) # <<>>)
                => lastEffect.path = "calculated"

\* a move of the location within the 4-decimal rounding keeps the cache
C14_Witness ==
    /\ EffectRan
    /\ lastEffect.path = "cached"
    /\ lastDone.location = "gps"
    /\ CurrentLoc = "gpsB"
    /\ lastEffect.shown # <<>>

\* ---- the ranking

\* a run has finished: its output and the records it pushed
RankDone == lastDone.id # 0
RankOut == lastDone.calculatedRanked
RankEvaluated == lastDone.evaluated

\* the order the ranking is to have: a is not to come after b
NotAfter(a, b) ==
    \/ a.isWithinPreference /\ ~b.isWithinPreference
    \/ a.isWithinPreference = b.isWithinPreference /\ a.totalPrice <= b.totalPrice

\* C15: the output holds min(3, evaluated) strategies, each an evaluated
\* candidate; within-preference strategies precede the others whatever their
\* price, equal preference status is in ascending total price, and no
\* candidate left out would have come before a retained one
C15_RankedByPreferenceThenPrice ==
    RankDone =>
        /\ Len(RankOut) = IF Len(RankEvaluated) < 3 THEN Len(RankEvaluated) ELSE 3
        /\ \A a, b \in DOMAIN RankOut : a < b =>
              /\ NotAfter(RankOut[a], RankOut[b])
              /\ RankOut[a].shopName # RankOut[b].shopName
        /\ \A a \in DOMAIN RankOut : \E e \in DOMAIN RankEvaluated :
              /\ RankEvaluated[e].shopName = RankOut[a].shopName
              /\ RankEvaluated[e].totalPrice = RankOut[a].totalPrice
              /\ RankEvaluated[e].numericDistance = RankOut[a].numericDistance
              /\ RankEvaluated[e].isWithinPreference = RankOut[a].isWithinPreference
              /\ RankOut[a].isWithinPreference
                    = (RankOut[a].numericDistance <= lastDone.maxDistance)
        /\ \A e \in DOMAIN RankEvaluated :
              (\A a \in DOMAIN RankOut : RankOut[a].shopName # RankEvaluated[e].shopName)
                  => \A a \in DOMAIN RankOut : NotAfter(RankOut[a], RankEvaluated[e])

\* scenario C: max distance 5, ShopA at 10 with total 3.00, ShopB at 3 with
\* total 4.00: ShopB is first
C15_Witness ==
    /\ RankDone
    /\ lastDone.maxDistance = 5
    /\ Len(RankOut) = 2
    /\ RankOut[1].shopName = ShopB /\ RankOut[1].numericDistance = 3
    /\ RankOut[1].totalPrice = 4000 /\ RankOut[1].isWithinPreference
    /\ RankOut[2].shopName = ShopA /\ RankOut[2].numericDistance = 10
    /\ RankOut[2].totalPrice = 3000 /\ ~RankOut[2].isWithinPreference

\* the retained strategies flagged closest, and those flagged cheapest
ClosestOnes == {k \in DOMAIN RankOut : RankOut[k].isClosest}
CheapestOnes == {k \in DOMAIN RankOut : RankOut[k].isCheapest}

\* C16: a ranking that retains a strategy flags exactly one of them closest,
\* one of minimum numeric distance, and exactly one cheapest, one of minimum
\* total price, whether or not the distances could be parsed
C16_ExactlyOneFlagged ==
    (RankDone /\ RankOut # <<>>) =>
        /\ Cardinality(ClosestOnes) = 1
        /\ Cardinality(CheapestOnes) = 1
        /\ \A k \in ClosestOnes : \A j \in DOMAIN RankOut :
              RankOut[k].numericDistance <= RankOut[j].numericDistance
        /\ \A k \in CheapestOnes : \A j \in DOMAIN RankOut :
              RankOut[k].totalPrice <= RankOut[j].totalPrice

\* the only candidate has the distance "Nearby": it is retained, flagged
\* cheapest, and nothing is flagged closest
C16_Witness ==
    /\ RankDone
    /\ Len(RankOut) = 1
    /\ RankOut[1].distance = <<"Nearby">>
    /\ RankOut[1].numericDistance = Infinity
    /\ RankOut[1].isCheapest
    /\ ClosestOnes = {}

\* C17: at most one strategy is flagged closest and at most one cheapest; a
\* flagged strategy holds the minimum, and every strategy sorted before it
\* is strictly farther (strictly dearer): among ties the first one is flagged
C17_AtMostOneFlaggedFirstWins ==
    RankDone =>
        /\ Cardinality(ClosestOnes) <= 1
        /\ Cardinality(CheapestOnes) <= 1
        /\ \A k \in ClosestOnes : \A j \in DOMAIN RankOut :
              /\ RankOut[k].numericDistance <= RankOut[j].numericDistance
              /\ j < k => RankOut[k].numericDistance < RankOut[j].numericDistance
        /\ \A k \in CheapestOnes : \A j \in DOMAIN RankOut :
              /\ RankOut[k].totalPrice <= RankOut[j].totalPrice
              /\ j < k => RankOut[k].totalPrice < RankOut[j].totalPrice

\* two strategies tie on the distance and on the total: the first has both flags
C17_Witness ==
    /\ RankDone
    /\ Len(RankOut) = 2
    /\ RankOut[1].totalPrice = RankOut[2].totalPrice
    /\ RankOut[1].numericDistance = RankOut[2].numericDistance
    /\ RankOut[1].numericDistance < Infinity
    /\ ClosestOnes = {1}
    /\ CheapestOnes = {1}

\* the quote lists of the ready items the finished run ranked
RankedLists == [k \in DOMAIN lastDone.readyItems |-> lastDone.readyItems[k].topOptions]

ScenarioB ==
    /\ RankDone
    /\ RankedLists = << Some(<<Quote(ShopA, 2000), Quote(ShopB, 2500)>>),
                        Some(<<Quote(ShopA, 1000), Quote(ShopB, 800)>>) >>

\* C18: in scenario B the candidates are ShopA and ShopB, their totals are
\* 3.00 and 3.30, no single-price lookup was made, and when both are within
\* the distance preference ShopA is first and is the one flagged cheapest
C18_ScenarioB ==
    ScenarioB =>
        /\ {lastDone.candidates[k].name : k \in DOMAIN lastDone.candidates} = {ShopA, ShopB}
        /\ Len(lastDone.candidates) = 2
        /\ Len(RankEvaluated) = 2
        /\ \A e \in DOMAIN RankEvaluated :
              /\ RankEvaluated[e].shopName = ShopA => RankEvaluated[e].totalPrice = 3000
              /\ RankEvaluated[e].shopName = ShopB => RankEvaluated[e].totalPrice = 3300
              /\ \A j \in DOMAIN RankEvaluated[e].receipt :
                    ~RankEvaluated[e].receipt[j].lookedUp
        /\ lastDone.priceCalls = <<>>
        /\ (\A k \in DOMAIN RankOut : RankOut[k].isWithinPreference)
              => /\ RankOut[1].shopName = ShopA
                 /\ RankOut[1].totalPrice = 3000
                 /\ CheapestOnes = {1}

C18_Witness ==
    /\ ScenarioB
    /\ Len(RankOut) = 2
    /\ RankOut[1].isWithinPreference /\ RankOut[2].isWithinPreference
    /\ RankOut[1].shopName = ShopA /\ RankOut[1].isCheapest
    /\ RankOut[2].shopName = ShopB /\ RankOut[2].totalPrice = 3300
    /\ RankOut[2].isClosest

\* the first quote of an item's list, the price 0 at no shop without one
FirstQuote(item) ==
    IF item.topOptions.some /\ Len(item.topOptions.val) > 0
    THEN item.topOptions.val[1] ELSE Quote("N/A", 0)

RECURSIVE SumDifferences(_)
SumDifferences(diffs) ==
    IF diffs = <<>> THEN 0 ELSE diffs[1].difference + SumDifferences(Tail(diffs))

\* the items of the finished run that are a savings gap at strategy s
GapItems(s) ==
    {j \in DOMAIN lastDone.readyItems :
        /\ s.shopName # FirstQuote(lastDone.readyItems[j]).shop
        /\ s.receipt[j].price - FirstQuote(lastDone.readyItems[j]).price > 10}

HasUnknownPrice(s) == \E j \in DOMAIN s.receipt : s.receipt[j].lookedUp /\ s.receipt[j].price = 0
AllPricesKnown(s) == ~HasUnknownPrice(s)

\* C20: a strategy with an unknown price (the sentinel 0 of the lookup) is
\* not ranked ahead of a strategy of the same preference status whose prices
\* are all known, and is not flagged cheapest over one
C20_UnknownIsNotFree ==
    RankDone => \A a, b \in DOMAIN RankOut :
        ( /\ HasUnknownPrice(RankOut[a])
          /\ AllPricesKnown(RankOut[b])
          /\ RankOut[a].isWithinPreference = RankOut[b].isWithinPreference )
            => b < a /\ ~RankOut[a].isCheapest

\* ShopB has no quote for the second item and the lookup gave no number:
\* its total is 2.50 against ShopA's 4.00, it is first and flagged cheapest
C20_Witness ==
    /\ RankDone
    /\ Len(RankOut) = 2
    /\ RankOut[1].shopName = ShopB
    /\ HasUnknownPrice(RankOut[1])
    /\ RankOut[1].totalPrice = 2500
    /\ RankOut[1].isCheapest
    /\ RankOut[2].shopName = ShopA
    /\ AllPricesKnown(RankOut[2])
    /\ RankOut[2].totalPrice = 4000
    /\ RankOut[1].isWithinPreference /\ RankOut[2].isWithinPreference

\* ---- the location the calls use

\* the calls a run has made
CallsMade(r) == Len(r.branchCalls) + Len(r.priceCalls)

\* the locations of the calls made in a step: findTopPriceOptions of a new
\* price task, getStoreBranchDetails or getPriceAtShop of a run
StepCallLocations ==
    {t.loc : t \in {u \in tasks' : u.stage = "price" /\ u \notin tasks}}
    \cup {runs'[k].location : k \in {j \in DOMAIN runs' :
              \A i \in DOMAIN runs :
                  runs[i].id = runs'[j].id => CallsMade(runs'[j]) > CallsMade(runs[i])}}

\* C21: a call that takes a location (findTopPriceOptions of an item,
\* getStoreBranchDetails and getPriceAtShop of a run), made when the user has
\* set a location, is made with that location
C21_UserLocationUsed ==
    [][userLocation # "none" => \A loc \in StepCallLocations : loc = userLocation]_vars

\* the user set a location and the device position arrived afterwards: the
\* prices of an item are being sourced at the device position
C21_Witness ==
    /\ userLocation = "town"
    /\ manualLocation = "gps"
    /\ \E t \in tasks : t.stage = "price" /\ t.loc = "gps"

\* ---- failed and superseded runs

\* the latest step was the rejection of a call of a run
Rejected == lastEffect.path = "rejected"

\* C22: the step in which a call of a run fails leaves the stored result and
\* the stored fingerprint as they were, and what the cache holds is always
\* the output of a run that evaluated every one of its candidates
C22_FailedRunStoresNothing ==
    /\ [][Rejected' => /\ cachedRankedShops' = cachedRankedShops
                       /\ lastCalculationFingerprint' = lastCalculationFingerprint]_vars
    /\ [](cachedRankedShops.some =>
            /\ lastDone.pc = "done"
            /\ Len(lastDone.evaluated) = Len(lastDone.candidates)
            /\ cachedRankedShops.val = lastDone.calculatedRanked
            /\ lastCalculationFingerprint = lastDone.fp)

\* a run under another distance preference failed after its first candidate
\* was evaluated; the cache still holds the earlier run's result
C22_Witness ==
    /\ Rejected
    /\ lastEffect.hadResult
    /\ lastEffect.shown # <<>>
    /\ lastEffect.fp # lastCalculationFingerprint
    /\ cachedRankedShops.some
    /\ lastCalculationFingerprint = lastEffect.storedFp
    /\ lastDone.id = 1
    /\ runsStarted = 2

\* the modal shows a strategy list: it is mounted, not loading, its effect
\* has run, and rankedShops was written
ShowsList ==
    /\ Mounted
    /\ ~loading
    /\ ~effectPending
    /\ ~rankedFp.empty

\* C23: a result computed under another fingerprint than the current one is
\* never handed to the effect as cachedData, and is never the strategy list
\* the modal shows
C23_StaleNeverRead ==
    /\ lastEffect.path = "cached" => lastEffect.storedFp = lastEffect.fp
    /\ ShowsList => rankedFp = CurrentFingerprint

\* the location changed while a run was in flight; the run of the new
\* fingerprint is still in flight, and the modal shows the superseded run's list
C23_Witness ==
    /\ ShowsList
    /\ rankedFp # CurrentFingerprint
    /\ rankedFp = lastDone.fp
    /\ lastCalculationFingerprint = lastDone.fp
    /\ rankedShops = lastDone.calculatedRanked
    /\ rankedShops # <<>>
    /\ \E k \in DOMAIN runs : runs[k].fp = CurrentFingerprint /\ runs[k].mounted

\* ---- the item pipeline: disambiguation and failures

\* the item the latest refineItem answer was for is still in the list
RefinedItemListed == lastRefine.some /\ ~lastRefine.isNull /\ HasItem(items, lastRefine.id)

PriceTasksOf(id) == {t \in tasks : t.id = id /\ t.stage = "price"}

\* C24: an answer with isVague = true takes the item correcting->vague and
\* makes no findTopPriceOptions call for it; a vague item has no such call
\* in flight and leaves vague only for searching; a specific answer takes
\* the item correcting->searching
C24_VagueAwaitsPick ==
    /\ (RefinedItemListed /\ lastRefine.isVague) =>
          /\ ItemOf(items, lastRefine.id).status = "vague"
          /\ StatusChanges = {<<"correcting", "vague">>}
          /\ PriceTasksOf(lastRefine.id) = {}
    /\ \A k \in DOMAIN items :
          items[k].status = "vague" => PriceTasksOf(items[k].id) = {}
    /\ \A e \in StatusChanges : e[1] = "vague" => e[2] = "searching"
    /\ (RefinedItemListed /\ ~lastRefine.isVague) =>
          <<"correcting", "searching">> \in StatusChanges

\* the answer was isVague = true without options: the item is searching and
\* findTopPriceOptions was called for it
C24_Witness ==
    /\ RefinedItemListed
    /\ lastRefine.isVague
    /\ ItemOf(items, lastRefine.id).status = "searching"
    /\ ItemOf(items, lastRefine.id).name = "bread"
    /\ PriceTasksOf(lastRefine.id) # {}

\* item id is in error before the step, is still listed after it, and the
\* step changed the item
LeavesError(id) ==
    /\ HasItem(items, id)
    /\ ItemOf(items, id).status = "error"
    /\ HasItem(items', id)
    /\ ItemOf(items', id) # ItemOf(items, id)

\* the step started a pipeline for item id
StartsPipeline(id) == \E t \in tasks' \ tasks : t.id = id

\* C25: when `await refineItem` rejects, the item is in error with the
\* message of the error the gateway threw; an item in error is changed by
\* nothing but onRetry (no pipeline is started for it otherwise), and
\* onRetry sets it to correcting and calls refineItem with its originalName
C25_ErrorUntilRetry ==
    /\ [](lastRefine.failed /\ HasItem(items, lastRefine.id) =>
            /\ ItemOf(items, lastRefine.id).status = "error"
            /\ ItemOf(items, lastRefine.id).error = Some(lastRefine.message)
            /\ lastRefine.message \in {e.message : e \in Rejections})
    /\ [][\A id \in Ids :
            LeavesError(id) \/ (StartsPipeline(id) /\ HasItem(items, id)
                                /\ ItemOf(items, id).status = "error") =>
                /\ RetryItem(id)
                /\ ItemOf(items', id).status = "correcting"
                /\ tasks' \ tasks =
                       {[id |-> id, stage |-> "refine",
                         name |-> ItemOf(items, id).originalName,
                         loc |-> CurrentLoc]}]_vars

\* a retried item whose second refineItem call was rejected as well, while
\* another item is listed
C25_Witness ==
    /\ lastRefine.failed
    /\ HasItem(items, lastRefine.id)
    /\ ItemOf(items, lastRefine.id).error = Some(MSG_SERVICE)
    /\ ItemOf(items, lastRefine.id).originalName = "milk"
    /\ starts >= 3
    /\ Len(items) = 2

\* the pipeline t fails in this step: one of its awaits rejects, or the
\* payload is null and reading it throws
PipelineFails(t) ==
    \/ \E err \in Rejections : TaskRejected(t, err)
    \/ \E v \in RefineValues : v.isNull /\ RefineResolved(t, v)
    \/ \E v \in PriceValues : v.isNull /\ PriceResolved(t, v)

\* the awaits of pipeline t can settle
CanSettle(t) ==
    \/ \E v \in RefineValues : RefineResolved(t, v)
    \/ \E v \in PriceValues : PriceResolved(t, v)
    \/ \E err \in Rejections : TaskRejected(t, err)

\* C26: a step in which the pipeline of one item fails sets that item to
\* error with a message and leaves every other item (status, name, quote
\* list, error and the rest) and every other pipeline as it was; a pipeline
\* in flight is never blocked, so the others go on to ready or error
C26_FailureTouchesOneItem ==
    /\ [][\A t \in tasks :
            PipelineFails(t) =>
                /\ DOMAIN items' = DOMAIN items
                /\ \A k \in DOMAIN items :
                       IF items[k].id = t.id
                       THEN /\ items'[k].status = "error"
                            /\ items'[k].error.some
                       ELSE items'[k] = items[k]
                /\ tasks' = tasks \ {t}]_vars
    /\ [](\A t \in tasks : ENABLED CanSettle(t))

\* the latest step failed the pipeline of one item while the pipeline of
\* the other, untouched, is still in flight
C26_Witness ==
    /\ Len(items) = 2
    /\ \E e \in edges : e[2] = "error"
    /\ items[1].status = "error"
    /\ items[2].status = "searching"
    /\ items[2].name = "white bread"
    /\ \E t \in tasks : t.id = items[2].id /\ t.stage = "price"

\* ---- the summary modal's loading state

\* the modal is open on its loading screen
ShowsLoading == Mounted /\ loading

\* a run of this mount of the modal is suspended at an await
RunInFlight == \E k \in DOMAIN runs : runs[k].mounted

\* C27: while the modal shows its loading screen, as it does from the start
\* of every run, something that ends the loading screen is under way: the
\* effect is about to run, a run of this mount is in flight, the progress
\* animation is running or a setLoading(false) timer is armed
C27_LeavesLoading ==
    ShowsLoading => effectPending \/ RunInFlight \/ anim \/ hideTimers > 0

\* an await of the only run rejected: the modal is on its loading screen
\* with no run in flight, no timer armed and no effect pending
C27_Witness ==
    /\ ShowsLoading
    /\ Rejected
    /\ runs = <<>>
    /\ ~anim
    /\ hideTimers = 0
    /\ ~effectPending
    /\ rankedShops = <<>>

\* ---- the gateway calls of a run

\* the runs in flight and the latest completed run
RunsSeen == {runs[k] : k \in DOMAIN runs} \cup {lastDone}

CandidateNames(r) == [c \in DOMAIN r.candidates |-> r.candidates[c].name]

\* the candidates the loop has reached
Reached(r) == Min(r.sIdx, Len(r.candidates))

\* C28: a run has at most MAX_CANDIDATES candidates, all different shops,
\* and its getStoreBranchDetails calls are exactly the candidates its loop
\* has reached, one call each in candidate order: when the run is done,
\* one call per candidate, whatever the number of ready items
C28_OneBranchCallPerCandidate ==
    \A r \in RunsSeen :
        /\ Len(r.candidates) <= MAX_CANDIDATES
        /\ \A a, b \in DOMAIN r.candidates :
               r.candidates[a].name = r.candidates[b].name => a = b
        /\ r.branchCalls = SubSeq(CandidateNames(r), 1, Reached(r))
        /\ r.pc = "done" => Len(r.branchCalls) = Len(r.candidates)

\* a completed run over two ready items that quote six shops: five
\* candidates, five getStoreBranchDetails calls, ten receipt lines
C28_Witness ==
    /\ lastDone.pc = "done"
    /\ Len(lastDone.readyItems) = 2
    /\ Len(lastDone.candidates) = MAX_CANDIDATES
    /\ Len(lastDone.branchCalls) = MAX_CANDIDATES
    /\ Len(lastDone.evaluated) = MAX_CANDIDATES
    /\ \A c \in DOMAIN lastDone.evaluated : Len(lastDone.evaluated[c].receipt) = 2

\* the candidate records a run has pushed
Pushed(r) == IF r.pc = "done" THEN r.evaluated ELSE r.calculatedRanked

\* the receipt lines whose price came from getPriceAtShop
LookedUp(receipt) == Cardinality({j \in DOMAIN receipt : receipt[j].lookedUp})

RECURSIVE SumLookedUp(_)
SumLookedUp(records) ==
    IF records = <<>> THEN 0
    ELSE LookedUp(records[1].receipt) + SumLookedUp(Tail(records))

\* the calls of a run that have settled: one getStoreBranchDetails per
\* pushed candidate and one getPriceAtShop per looked-up receipt line, and
\* for the candidate under evaluation its distance, once known, and the
\* looked-up lines of its receipt so far
SettledCalls(r) ==
    Len(Pushed(r)) + SumLookedUp(Pushed(r))
    + IF r.pc = "done" THEN 0
      ELSE (IF r.distance # <<>> THEN 1 ELSE 0) + LookedUp(r.receipt)

Outstanding(r) == CallsMade(r) - SettledCalls(r)

\* item quotes shop in its topOptions
Quotes(item, shop) ==
    /\ item.topOptions.some
    /\ \E q \in DOMAIN item.topOptions.val : item.topOptions.val[q].shop = shop

\* C29: a run in flight has exactly one gateway call outstanding and a
\* completed run none, so each call of a run is issued after the one before
\* it settled; and every getPriceAtShop call of a run is for a ready item
\* whose topOptions has no quote of the candidate shop
C29_OneCallAtATime ==
    /\ \A k \in DOMAIN runs :
           /\ runs[k].pc \in {"branch", "price"}
           /\ Outstanding(runs[k]) = 1
    /\ Outstanding(lastDone) = 0
    /\ \A r \in RunsSeen :
           \A c \in DOMAIN r.priceCalls :
               /\ r.priceCalls[c][1] \in DOMAIN r.readyItems
               /\ ~Quotes(r.readyItems[r.priceCalls[c][1]], r.priceCalls[c][2])

\* a run over two ready items, suspended at its second getPriceAtShop call:
\* three calls have settled, the second item quotes the candidate shop
\* and was not looked up
C29_Witness ==
    \E k \in DOMAIN runs :
        /\ runs[k].pc = "price"
        /\ Len(runs[k].readyItems) = 2
        /\ Len(runs[k].priceCalls) = 2
        /\ Len(runs[k].branchCalls) = 2
        /\ SettledCalls(runs[k]) = 3
        /\ \E c \in DOMAIN runs[k].calculatedRanked :
               /\ runs[k].calculatedRanked[c].receipt[1].lookedUp
               /\ ~runs[k].calculatedRanked[c].receipt[2].lookedUp

\* ---- the summary without ready items

NoItemReady == \A k \in DOMAIN items : items[k].status # "ready"

\* C30: when the effect calls calculateSummary while no item is ready, the
\* call returns at once: no run is started and no gateway call issued, the
\* modal leaves its loading screen with an empty list, no item and no
\* setting is touched, and the cached result and its fingerprint stay as
\* they were
C30_NoReadyShortCircuits ==
    [][(SummaryEffect /\ NoItemReady) =>
          /\ lastEffect'.path = "empty"
          /\ lastEffect'.calls = 0
          /\ runs' = runs
          /\ runsStarted' = runsStarted
          /\ lastDone' = lastDone
          /\ rankedShops' = <<>>
          /\ ~loading'
          /\ hideTimers' = hideTimers
          /\ cachedRankedShops' = cachedRankedShops
          /\ lastCalculationFingerprint' = lastCalculationFingerprint
          /\ items' = items
          /\ UNCHANGED gwVars]_vars

\* the modal, mounted when the device position arrived after the only
\* ready item had been deleted, shows the empty result
C30_Witness ==
    /\ lastEffect.path = "empty"
    /\ NoItemReady
    /\ Mounted
    /\ ~loading
    /\ rankedShops = <<>>
    /\ runs = <<>>

\* ---- response texts that do not hold what the caller expects

\* JSON.parse throws on what findTopPriceOptions hands it for this text
PriceTextUnparsable(text) ==
    LET jsonMatch == JsonMatch(text)
    IN ParseQuotes(IF jsonMatch.some THEN jsonMatch.val ELSE text).threw

\* C31: when the findTopPriceOptions response text is empty or cannot be
\* parsed, the call returns in that step without throwing (nothing reaches
\* the catch block of handleApiCall, the lane is not re-entered), and the
\* item is ready with an empty quote list, shop "Unknown" and price 0 and
\* no error
C31_UnparsablePricesGiveEmptyList ==
    [][\A t \in tasks, text \in PriceResponseTexts :
          (PriceResponds(t, text) /\ (text = <<>> \/ PriceTextUnparsable(text))) =>
              /\ calls'[PRICE_CALL].pc = "resolved"
              /\ calls'[PRICE_CALL].fails = calls[PRICE_CALL].fails
              /\ calls'[PRICE_CALL].waited = calls[PRICE_CALL].waited
              /\ tickets' = tickets
              /\ tasks' = tasks \ {t}
              /\ HasItem(items', t.id)
              /\ ItemOf(items', t.id).status = "ready"
              /\ ItemOf(items', t.id).topOptions = Some(<<>>)
              /\ ItemOf(items', t.id).cheapestShop = "Unknown"
              /\ ItemOf(items', t.id).price = Some(0)
              /\ ~ItemOf(items', t.id).error.some]_vars

\* the item is ready with an empty quote list and the placeholders, its
\* findTopPriceOptions call having returned at its first attempt
C31_Witness ==
    /\ Len(items) = 1
    /\ items[1].status = "ready"
    /\ items[1].topOptions = Some(<<>>)
    /\ items[1].cheapestShop = "Unknown"
    /\ items[1].price = Some(0)
    /\ calls[PRICE_CALL].pc = "resolved"
    /\ Len(calls[PRICE_CALL].attempts) = 1
    /\ calls[PRICE_CALL].fails = <<>>

\* the resolver response is not a JSON text (JSON.parse throws on it), or
\* is one that is not an object with a name: null, an array, {}
RefineTextUnparsable(text) == text # <<>> /\ RefineItem(text).threw
RefineTextMismatched(text) == text \in {<<"null">>, <<"[", "]">>, <<"{}">>}

\* C32: a refineItem response that cannot be parsed or has not the
\* expected shape is not thrown: the call returns in that step (nothing
\* reaches the catch block of handleApiCall, no backoff, no retry) and the
\* item is not set to error
C32_MalformedRefineIsDefault ==
    [][\A t \in tasks, text \in RefineResponseTexts :
          (RefineResponds(t, text)
             /\ (RefineTextUnparsable(text) \/ RefineTextMismatched(text))) =>
              /\ calls'[REFINE_CALL].pc = "resolved"
              /\ calls'[REFINE_CALL].fails = calls[REFINE_CALL].fails
              /\ ItemOf(items', t.id).status # "error"]_vars

\* the resolver answered with prose twice: the first SyntaxError was
\* retried as a 500 after TRANSIENT_BACKOFF, the second rejected the call,
\* and the item is in error with the parser's message
C32_Witness ==
    /\ Len(items) = 1
    /\ items[1].status = "error"
    /\ items[1].error = Some(SyntaxError.message)
    /\ calls[REFINE_CALL].pc = "rejected"
    /\ calls[REFINE_CALL].fails = <<SyntaxError, SyntaxError>>
    /\ calls[REFINE_CALL].waited = <<TRANSIENT_BACKOFF>>
    /\ Len(calls[REFINE_CALL].attempts) = 2
    /\ calls[REFINE_CALL].error.status = 500

\* ---- what a ready item holds

\* C33: every ready item has its quote list set, and when the list has a
\* first element the item's shop and price are that element's
C33_ReadyHasQuotes ==
    \A k \in DOMAIN items :
        items[k].status = "ready" =>
            /\ items[k].topOptions.some
            /\ items[k].topOptions.val # <<>> =>
                   /\ items[k].cheapestShop = items[k].topOptions.val[1].shop
                   /\ items[k].price = Some(items[k].topOptions.val[1].price)

\* an item resolved while no location is known: ready with no quote list,
\* no shop and no price, and no findTopPriceOptions call was made for it
C33_Witness ==
    /\ location = "none"
    /\ manualLocation = "none"
    /\ <<"searching", "ready">> \in edges
    /\ lastRefine.some
    /\ HasItem(items, lastRefine.id)
    /\ ItemOf(items, lastRefine.id).status = "ready"
    /\ ItemOf(items, lastRefine.id).name = "whole milk"
    /\ ~ItemOf(items, lastRefine.id).topOptions.some
    /\ ItemOf(items, lastRefine.id).cheapestShop = Undefined
    /\ ~ItemOf(items, lastRefine.id).price.some
    /\ PriceTasksOf(lastRefine.id) = {}

\* ---- the cached pair

\* fp is the fingerprint of what run r was started with: its ready items,
\* its location, its distance preference and its unit
FingerprintOfInputs(fp, r) ==
    /\ ~fp.empty
    /\ fp.ready = ReadyKeys(r.readyItems)
    /\ LocKey(r.location) = (IF fp.manualLocKey # <<>> THEN fp.manualLocKey
                              ELSE fp.locKey)
    /\ fp.maxDistance = r.maxDistance
    /\ fp.distanceUnit = r.distanceUnit

\* C34: the cache holds the list of the run that completed last together
\* with the fingerprint of what that run was started with, whatever the
\* fingerprint is by then; a result served from the cache is that list and
\* the fingerprint of that run's inputs is the current one; a step that
\* changes either half stores the pair of the run that completes in it
C34_CachedPairMatches ==
    /\ [](cachedRankedShops.some =>
            /\ lastDone.pc = "done"
            /\ cachedRankedShops.val = lastDone.calculatedRanked
            /\ lastCalculationFingerprint = lastDone.fp
            /\ FingerprintOfInputs(lastCalculationFingerprint, lastDone))
    /\ [](lastEffect.path = "cached" =>
            /\ lastEffect.shown = lastDone.calculatedRanked
            /\ lastEffect.fp = CurrentFingerprint
            /\ FingerprintOfInputs(lastEffect.fp, lastDone))
    /\ [][(cachedRankedShops' # cachedRankedShops
              \/ lastCalculationFingerprint' # lastCalculationFingerprint) =>
              /\ lastDone'.id # lastDone.id
              /\ cachedRankedShops' = Some(lastDone'.calculatedRanked)
              /\ lastCalculationFingerprint' = lastDone'.fp]_vars

\* the first run completed after its inputs had been superseded: its list
\* is cached under the fingerprint it was started with, which is not the
\* current one, while the second run is in flight
C34_Witness ==
    /\ cachedRankedShops.some
    /\ cachedRankedShops.val # <<>>
    /\ lastDone.id = 1
    /\ lastCalculationFingerprint = lastDone.fp
    /\ lastCalculationFingerprint # CurrentFingerprint
    /\ \E k \in DOMAIN runs : runs[k].id = 2 /\ runs[k].fp = CurrentFingerprint

\* ---- the lane and the backend

\* C35: the lane promise of a call is resolved from its admission on,
\* whatever becomes of its backend request, and every entry into
\* throttle() is eventually admitted although no backend request need
\* ever return
C35_LaneNeverBlocked ==
    /\ [](\A t \in DOMAIN tickets : tickets[t].admitted => t \in settled)
    /\ [](\A c \in Calls :
             calls[c].pc \in {"inflight", "backoff", "resolved", "rejected"} =>
                 calls[c].mine \in settled)
    /\ \A t \in 1..MaxEntries :
           (t <= Len(tickets)) ~> (t <= Len(tickets) /\ tickets[t].admitted)

\* every entry has been admitted while the first call is still in flight
\* and another call was rejected
C35_Witness ==
    /\ Len(tickets) >= 3
    /\ \A t \in DOMAIN tickets : tickets[t].admitted
    /\ calls[1].pc = "inflight"
    /\ Len(calls[1].attempts) = 1
    /\ \E c \in Calls : calls[c].pc = "rejected"

\* ---- runs side by side

\* C36: at most one calculateSummary invocation is suspended at an await
C36_OneRunInFlight == Len(runs) <= 1

\* the effect ran again while the first run was at its first await, after
\* a change that left the fingerprint as it was: two runs of the same
\* mount, over the same ready items and under the same fingerprint, are in
\* flight, each with a getStoreBranchDetails call outstanding
C36_Witness ==
    /\ Len(runs) = 2
    /\ runs[1].mounted /\ runs[2].mounted
    /\ runs[1].id = 1 /\ runs[2].id = 2
    /\ runs[1].fp = runs[2].fp
    /\ runs[1].readyItems = runs[2].readyItems
    /\ runs[1].pc = "branch" /\ runs[2].pc = "branch"
    /\ Len(runs[1].branchCalls) = 1
    /\ lastDone.id = 0

\* ---- deleted items

\* the ids handed out so far whose item is not in the list
DeletedIds == {id \in 1..nextId : ~HasItem(items, id)}

\* C37: the ids in the list are all different; an id that is no longer in
\* the list never comes back; and a step in which the pipeline of a deleted
\* item resolves or fails leaves the list as it is
C37_DeletionIsFinal ==
    /\ [](\A a, b \in DOMAIN items : items[a].id = items[b].id => a = b)
    /\ [][\A id \in DeletedIds : ~HasItem(items', id)]_vars
    /\ [][\A t \in tasks :
             (t.id \in DeletedIds /\ CanSettle(t)) =>
                 /\ items' = items
                 /\ StatusChanges' = {}]_vars

\* refineItem has just resolved for an item deleted meanwhile, after a
\* second item was added: the remaining item is as its own pipeline left it
C37_Witness ==
    /\ lastRefine.some
    /\ lastRefine.id = 1
    /\ lastRefine.id \in DeletedIds
    /\ Len(items) = 1
    /\ items[1].id = 2
    /\ items[1].status = "ready"
    /\ items[1].originalName = "bread"

\* the ready items of the finished run that a savings-gap entry names
GapSources(g) ==
    {j \in DOMAIN lastDone.readyItems : lastDone.readyItems[j].name = g.itemName}

\* a ready item whose quote list is unset or empty
HasNoQuotes(item) == ~item.topOptions.some \/ item.topOptions.val = <<>>

\* C38: every savings-gap entry of every strategy refers to a real cheaper
\* quote: its cheapest shop is the shop of the first element of the item's
\* quote list and is not the strategy's shop, and its cheapest price is that
\* quote's price; a ready item whose quote list is empty or unset has no
\* savings-gap entry, so that it adds nothing to potentialSavings
C38_GapsAreRealQuotes ==
    RankDone => \A e \in DOMAIN RankEvaluated :
        LET s == RankEvaluated[e] IN
        /\ s.potentialSavings = SumDifferences(s.savingsDiff)
        /\ \A g \in DOMAIN s.savingsDiff : \A j \in GapSources(s.savingsDiff[g]) :
              LET item == lastDone.readyItems[j] IN
              /\ ~HasNoQuotes(item)
              /\ s.savingsDiff[g].cheapestShop = item.topOptions.val[1].shop
              /\ s.savingsDiff[g].cheapestShop # s.shopName
              /\ s.savingsDiff[g].cheapestPrice = item.topOptions.val[1].price

\* the first item quotes ShopA alone, the second has an empty quote list:
\* ShopA looks the second item up at 1.50 and lists it as a savings gap
\* against the shop "N/A" at the price 0, and counts 1.50 as potential savings
C38_Witness ==
    /\ RankDone
    /\ Len(lastDone.readyItems) = 2
    /\ ~HasNoQuotes(lastDone.readyItems[1])
    /\ lastDone.readyItems[2].topOptions = Some(<<>>)
    /\ \E e \in DOMAIN RankEvaluated :
          LET s == RankEvaluated[e] IN
          /\ s.shopName = ShopA
          /\ Len(s.savingsDiff) = 1
          /\ s.savingsDiff[1].itemName = lastDone.readyItems[2].name
          /\ s.savingsDiff[1].cheapestShop = "N/A"
          /\ s.savingsDiff[1].cheapestPrice = 0
          /\ s.savingsDiff[1].bestShopPrice = 1500
          /\ s.potentialSavings = 1500

====
